---- MODULE Spec2Model ----
(***************************************************************************)
(* img-tools: interactive raster transform and overlay geometry.           *)
(*                                                                         *)
(* The viewer (CanvasImageViewer), the crop overlay (CropOverlay), the     *)
(* crop / watermark / mask pages and the shared image list are modelled    *)
(* as state machines.  JavaScript numbers are modelled as exact rationals  *)
(* <<numerator, denominator>>; Math.trunc / Math.round are modelled by     *)
(* what they do on those rationals.                                        *)
(***************************************************************************)
EXTENDS Integers, Sequences, FiniteSets, TLC

(***************************************************************************)
(* Exact rational arithmetic (JavaScript number arithmetic without         *)
(* rounding error).                                                        *)
(***************************************************************************)
RECURSIVE Gcd(_, _)
Gcd(a, b) == IF b = 0 THEN a ELSE Gcd(b, a % b)

\* The(S): the element of the singleton set S.  A value that a definition
\* uses several times is bound to a variable ranging over a singleton set.
The(S) == CHOOSE e \in S : TRUE

Abs(n) == IF n < 0 THEN -n ELSE n

Norm(n, d) ==
    LET s == IF d < 0 THEN -1 ELSE 1
        g == Gcd(Abs(n), Abs(d))
    IN  IF n = 0 THEN <<0, 1>> ELSE <<(s * n) \div g, (s * d) \div g>>

R(i) == <<i, 1>>
\* common factors are divided out before multiplying, to keep the numbers small
RAdd(a, b) ==
    LET g == Gcd(a[2], b[2])
    IN  Norm(a[1] * (b[2] \div g) + b[1] * (a[2] \div g), (a[2] \div g) * b[2])
RNeg(a) == <<-a[1], a[2]>>
RSub(a, b) == RAdd(a, RNeg(b))
RMul(a, b) ==
    LET g1 == Gcd(Abs(a[1]), b[2])
        g2 == Gcd(Abs(b[1]), a[2])
    IN  IF a[1] = 0 \/ b[1] = 0 THEN <<0, 1>>
        ELSE Norm((a[1] \div g1) * (b[1] \div g2), (a[2] \div g2) * (b[2] \div g1))
RInv(a) == IF a[1] < 0 THEN <<-a[2], -a[1]>> ELSE <<a[2], a[1]>>
RDiv(a, b) == IF b[1] = 0 THEN Norm(a[1], 0) ELSE RMul(a, RInv(b))
RLt(a, b) ==
    LET g == Gcd(a[2], b[2])
    IN  a[1] * (b[2] \div g) < b[1] * (a[2] \div g)
RLe(a, b) ==
    LET g == Gcd(a[2], b[2])
    IN  a[1] * (b[2] \div g) <= b[1] * (a[2] \div g)
RMin(a, b) == IF RLe(a, b) THEN a ELSE b
RMax(a, b) == IF RLe(a, b) THEN b ELSE a
RAbs(a) == <<Abs(a[1]), a[2]>>
RHalf(a) == Norm(a[1], 2 * a[2])

\* Math.trunc: towards zero
MathTrunc(a) == IF a[1] >= 0 THEN a[1] \div a[2] ELSE -((-a[1]) \div a[2])
\* Math.round: floor(v + 1/2)
MathRound(a) == (2 * a[1] + a[2]) \div (2 * a[2])
\* Math.ceil
MathCeil(a) == -((-a[1]) \div a[2])

IMin(a, b) == IF a <= b THEN a ELSE b
IMax(a, b) == IF a <= b THEN b ELSE a

\* null / undefined where a number (a rational) is expected
Undefined == <<0, 0>>

(***************************************************************************)
(* Crop page helpers (ImageCropPage.tsx)                                   *)
(***************************************************************************)
\* a rect of rationals from a rect of integers
RatRect(r) == [x |-> R(r.x), y |-> R(r.y), w |-> R(r.w), h |-> R(r.h)]

clampInt(v, min, max) == IMin(max, IMax(min, MathTrunc(v)))

clampRect(r, maxW, maxH) ==
    The({The({[x |-> x, y |-> y, w |-> w, h |-> h]
              : w \in {clampInt(r.w, 1, IMax(1, maxW - x))},
                h \in {clampInt(r.h, 1, IMax(1, maxH - y))}})
         : x \in {clampInt(r.x, 0, IMax(0, maxW - 1))},
           y \in {clampInt(r.y, 0, IMax(0, maxH - 1))}})

initRect(maxW, maxH) ==
    The({LET x == MathRound(<<maxW - w, 2>>)
             y == MathRound(<<maxH - h, 2>>)
         IN  clampRect(RatRect([x |-> x, y |-> y, w |-> w, h |-> h]), maxW, maxH)
         : w \in {IMax(48, MathRound(<<maxW * 4, 5>>))},
           h \in {IMax(48, MathRound(<<maxH * 4, 5>>))}})

\* rect: integer rect, ratio: rational w/h
fitRectToRatio(rect, ratio, maxW, maxH) ==
    LET cx == RAdd(R(rect.x), <<rect.w, 2>>)
        cy == RAdd(R(rect.y), <<rect.h, 2>>)
        wide == RLt(ratio, <<rect.w, rect.h>>)
    IN  The({LET x == MathRound(RSub(cx, <<w, 2>>))
                 y == MathRound(RSub(cy, <<h, 2>>))
             IN  clampRect(RatRect([x |-> x, y |-> y, w |-> w, h |-> h]), maxW, maxH)
             : w \in {IF wide THEN MathRound(RMul(R(rect.h), ratio)) ELSE rect.w},
               h \in {IF wide THEN rect.h ELSE MathRound(RDiv(R(rect.w), ratio))}})

(***************************************************************************)
(* Viewer geometry (CanvasImageViewer)                                     *)
(***************************************************************************)
Rotations == {0, 90, 180, 270}
Padding == 20

\* contain fit of an imgWidth x imgHeight footprint inside the container
fitContainWithPadding(imgWidth, imgHeight, containerWidth, containerHeight) ==
    LET availableWidth == containerWidth - Padding * 2
        availableHeight == containerHeight - Padding * 2
    IN  The({The({[x |-> RHalf(RSub(R(containerWidth), w)),
                   y |-> RHalf(RSub(R(containerHeight), h)),
                   w |-> w, h |-> h, scale |-> scale]
                  : w \in {RMul(R(imgWidth), scale)}, h \in {RMul(R(imgHeight), scale)}})
             : scale \in {RMin(<<availableWidth, imgWidth>>, <<availableHeight, imgHeight>>)}})

isQuarterTurn(r) == r = 90 \/ r = 270

\* the next rotation without the reduction modulo 360
rotateRight90NoWrap(curr) == curr + 90

\* api.rotateRight90: the next rotation
rotateRight90(curr) == (curr + 90) % 360

\* the ViewState recorded by draw(): zoom is a rational, pan a pair of rationals
draw(containerWidth, containerHeight, imageWidth, imageHeight, r, currentZoom, currentPan) ==
    LET effectiveW == IF isQuarterTurn(r) THEN imageHeight ELSE imageWidth
        effectiveH == IF isQuarterTurn(r) THEN imageWidth ELSE imageHeight
    IN  The({The({[containerWidth |-> containerWidth, containerHeight |-> containerHeight,
                   rotation |-> r, imageWidth |-> imageWidth, imageHeight |-> imageHeight,
                   effectiveWidth |-> effectiveW, effectiveHeight |-> effectiveH,
                   boxX |-> RAdd(RAdd(base.x, RHalf(RSub(base.w, boxW))), currentPan.x),
                   boxY |-> RAdd(RAdd(base.y, RHalf(RSub(base.h, boxH))), currentPan.y),
                   boxW |-> boxW, boxH |-> boxH]
                  : boxW \in {RMul(base.w, currentZoom)},
                    boxH \in {RMul(base.h, currentZoom)}})
             : base \in {fitContainWithPadding(effectiveW, effectiveH,
                                               containerWidth, containerHeight)}})

(***************************************************************************)
(* Crop overlay geometry (CropOverlay)                                     *)
(***************************************************************************)
MIN_SIZE == 24

Handles == {"move", "n", "s", "e", "w", "ne", "nw", "se", "sw"}

\* a clamp that does not clamp
clampNone(v, min, max) == v

clamp(v, min, max) == RMax(min, RMin(max, v))

rectNormalize(r) ==
    The({[x |-> x1, y |-> y1, w |-> RSub(x2, x1), h |-> RSub(y2, y1)]
         : x1 \in {RMin(r.x, RAdd(r.x, r.w))}, y1 \in {RMin(r.y, RAdd(r.y, r.h))},
           x2 \in {RMax(r.x, RAdd(r.x, r.w))}, y2 \in {RMax(r.y, RAdd(r.y, r.h))}})

\* mode: [kind |-> "free"] | [kind |-> "ratio", ratio |-> q] | [kind |-> "circle"]
getRatio(mode) ==
    IF mode.kind = "ratio" THEN mode.ratio
    ELSE IF mode.kind = "circle" THEN R(1)
    ELSE Undefined

pointOriginalToEffective(x, y, rotation, origW, origH) ==
    IF rotation = 0 THEN [x |-> x, y |-> y]
    ELSE IF rotation = 90 THEN [x |-> RSub(R(origH), y), y |-> x]
    ELSE IF rotation = 180 THEN [x |-> RSub(R(origW), x), y |-> RSub(R(origH), y)]
    ELSE [x |-> y, y |-> RSub(R(origW), x)]

\* the inverse with the two quarter turns exchanged
pointEffectiveToOriginalSwapped(x, y, rotation, origW, origH) ==
    IF rotation = 0 THEN [x |-> x, y |-> y]
    ELSE IF rotation = 270 THEN [x |-> y, y |-> RSub(R(origH), x)]
    ELSE IF rotation = 180 THEN [x |-> RSub(R(origW), x), y |-> RSub(R(origH), y)]
    ELSE [x |-> RSub(R(origW), y), y |-> x]

pointEffectiveToOriginal(x, y, rotation, origW, origH) ==
    IF rotation = 0 THEN [x |-> x, y |-> y]
    ELSE IF rotation = 90 THEN [x |-> y, y |-> RSub(R(origH), x)]
    ELSE IF rotation = 180 THEN [x |-> RSub(R(origW), x), y |-> RSub(R(origH), y)]
    ELSE [x |-> RSub(R(origW), y), y |-> x]

RMin4(a, b, c, d) == RMin(RMin(a, b), RMin(c, d))
RMax4(a, b, c, d) == RMax(RMax(a, b), RMax(c, d))

BoundingBox(a, b, c, d) ==
    The({[x |-> minX, y |-> minY, w |-> RSub(maxX, minX), h |-> RSub(maxY, minY)]
         : minX \in {RMin4(a.x, b.x, c.x, d.x)}, minY \in {RMin4(a.y, b.y, c.y, d.y)},
           maxX \in {RMax4(a.x, b.x, c.x, d.x)}, maxY \in {RMax4(a.y, b.y, c.y, d.y)}})

rectOriginalToEffective(r, v) ==
    BoundingBox(
        pointOriginalToEffective(r.x, r.y, v.rotation, v.imageWidth, v.imageHeight),
        pointOriginalToEffective(RAdd(r.x, r.w), r.y, v.rotation, v.imageWidth, v.imageHeight),
        pointOriginalToEffective(r.x, RAdd(r.y, r.h), v.rotation, v.imageWidth, v.imageHeight),
        pointOriginalToEffective(RAdd(r.x, r.w), RAdd(r.y, r.h), v.rotation, v.imageWidth, v.imageHeight))

rectEffectiveToOriginal(r, v) ==
    BoundingBox(
        pointEffectiveToOriginal(r.x, r.y, v.rotation, v.imageWidth, v.imageHeight),
        pointEffectiveToOriginal(RAdd(r.x, r.w), r.y, v.rotation, v.imageWidth, v.imageHeight),
        pointEffectiveToOriginal(r.x, RAdd(r.y, r.h), v.rotation, v.imageWidth, v.imageHeight),
        pointEffectiveToOriginal(RAdd(r.x, r.w), RAdd(r.y, r.h), v.rotation, v.imageWidth, v.imageHeight))

clampEffectiveRect(r, v) ==
    The({The({[x |-> clamp(rr.x, R(0), RSub(R(v.effectiveWidth), w)),
               y |-> clamp(rr.y, R(0), RSub(R(v.effectiveHeight), h)),
               w |-> w, h |-> h]
              : w \in {clamp(rr.w, R(MIN_SIZE), R(v.effectiveWidth))},
                h \in {clamp(rr.h, R(MIN_SIZE), R(v.effectiveHeight))}})
         : rr \in {rectNormalize(r)}})

\* ratio = w / h
applyRatio(r, handle, ratio) ==
    The({IF ~(RLt(R(0), n.w) /\ RLt(R(0), n.h)) THEN n
         ELSE IF handle = "move" THEN n
         ELSE The({The({LET cx == RAdd(n.x, RHalf(n.w))
                            cy == RAdd(n.y, RHalf(n.h))
                        IN  IF handle \in {"n", "s"}
                            THEN [x |-> RSub(cx, RHalf(wantW)), y |-> n.y,
                                  w |-> wantW, h |-> n.h]
                            ELSE IF handle \in {"e", "w"}
                            THEN [x |-> n.x, y |-> RSub(cy, RHalf(wantH)),
                                  w |-> n.w, h |-> wantH]
                            ELSE IF handle = "se" THEN [x |-> n.x, y |-> n.y, w |-> w, h |-> h]
                            ELSE IF handle = "sw"
                            THEN [x |-> RAdd(n.x, RSub(n.w, w)), y |-> n.y, w |-> w, h |-> h]
                            ELSE IF handle = "ne"
                            THEN [x |-> n.x, y |-> RAdd(n.y, RSub(n.h, h)), w |-> w, h |-> h]
                            ELSE [x |-> RAdd(n.x, RSub(n.w, w)),
                                  y |-> RAdd(n.y, RSub(n.h, h)), w |-> w, h |-> h]
                        : w \in {IF adjustByWidth THEN wantW ELSE n.w},
                          h \in {IF adjustByWidth THEN n.h ELSE wantH}})
                   : wantW \in {RMul(n.h, ratio)}, wantH \in {RDiv(n.w, ratio)},
                     adjustByWidth \in {RLt(RAbs(RSub(n.w, RMul(n.h, ratio))),
                                            RAbs(RSub(n.h, RDiv(n.w, ratio))))}})
         : n \in {rectNormalize(r)}})

\* the overlay root covers the viewer container, so client offsets are
\* container coordinates
screenToEffectivePoint(x, y, v) ==
    [x |-> RMul(RDiv(RSub(x, v.boxX), v.boxW), R(v.effectiveWidth)),
     y |-> RMul(RDiv(RSub(y, v.boxY), v.boxH), R(v.effectiveHeight))]

effectiveToScreenRect(eff, v) ==
    [x |-> RAdd(v.boxX, RMul(RDiv(eff.x, R(v.effectiveWidth)), v.boxW)),
     y |-> RAdd(v.boxY, RMul(RDiv(eff.y, R(v.effectiveHeight)), v.boxH)),
     w |-> RMul(RDiv(eff.w, R(v.effectiveWidth)), v.boxW),
     h |-> RMul(RDiv(eff.h, R(v.effectiveHeight)), v.boxH)]

\* the rect edited by one pointer-move of a drag (onMove, before the clamps)
DragPatch(handle, s, dx, dy) ==
    IF handle = "move" THEN [s EXCEPT !.x = RAdd(s.x, dx), !.y = RAdd(s.y, dy)]
    ELSE IF handle = "e" THEN [s EXCEPT !.w = RAdd(s.w, dx)]
    ELSE IF handle = "w" THEN [s EXCEPT !.x = RAdd(s.x, dx), !.w = RSub(s.w, dx)]
    ELSE IF handle = "s" THEN [s EXCEPT !.h = RAdd(s.h, dy)]
    ELSE IF handle = "n" THEN [s EXCEPT !.y = RAdd(s.y, dy), !.h = RSub(s.h, dy)]
    ELSE IF handle = "se" THEN [s EXCEPT !.w = RAdd(s.w, dx), !.h = RAdd(s.h, dy)]
    ELSE IF handle = "sw"
        THEN [s EXCEPT !.x = RAdd(s.x, dx), !.w = RSub(s.w, dx), !.h = RAdd(s.h, dy)]
    ELSE IF handle = "ne"
        THEN [s EXCEPT !.y = RAdd(s.y, dy), !.h = RSub(s.h, dy), !.w = RAdd(s.w, dx)]
    ELSE [s EXCEPT !.x = RAdd(s.x, dx), !.w = RSub(s.w, dx),
                   !.y = RAdd(s.y, dy), !.h = RSub(s.h, dy)]

\* onMove: the rect handed to onRectChange (original-pixel space)
onMove(drag, pt, shiftKey, ratio, v, imageWidth, imageHeight) ==
    LET dx == RSub(pt.x, drag.startPt.x)
        dy == RSub(pt.y, drag.startPt.y)
        shiftRatio == IF shiftKey THEN drag.startRatio ELSE Undefined
        ratioToApply == IF ratio # Undefined THEN ratio ELSE shiftRatio
    IN  The({The({[x |-> clamp(orig.x, R(0), R(imageWidth - MIN_SIZE)),
                   y |-> clamp(orig.y, R(0), R(imageHeight - MIN_SIZE)),
                   w |-> clamp(orig.w, R(MIN_SIZE), R(imageWidth)),
                   h |-> clamp(orig.h, R(MIN_SIZE), R(imageHeight))]
                  : orig \in {LET next == IF ratioToApply # Undefined /\ ratioToApply[1] # 0
                                               /\ drag.handle # "move"
                                          THEN applyRatio(patched, drag.handle, ratioToApply)
                                          ELSE patched
                                  clamped == clampEffectiveRect(next, v)
                              IN  rectNormalize(rectEffectiveToOriginal(clamped, v))}})
             : patched \in {DragPatch(drag.handle, drag.startEff, dx, dy)}})

\* onRectChange as wired by the page: setRect(clampRect(next, info.width, info.height))
onRectChange(next, imageWidth, imageHeight) == clampRect(next, imageWidth, imageHeight)

\* where the pointer goes down for a handle: the centre of its hit target,
\* the centre of the rect body for "move" (screen coordinates)
HandleScreenPoint(handle, screen) ==
    LET x1 == screen.x
        y1 == screen.y
        x2 == RAdd(screen.x, screen.w)
        y2 == RAdd(screen.y, screen.h)
        xm == RAdd(x1, RHalf(screen.w))
        ym == RAdd(y1, RHalf(screen.h))
    IN  [x |-> IF handle \in {"nw", "w", "sw"} THEN x1
               ELSE IF handle \in {"ne", "e", "se"} THEN x2 ELSE xm,
         y |-> IF handle \in {"nw", "n", "ne"} THEN y1
               ELSE IF handle \in {"sw", "s", "se"} THEN y2 ELSE ym]

(***************************************************************************)
(* Image list (useImageItems) and the images of a session                  *)
(***************************************************************************)
ImageIds == {"a", "b", "c"}
\* the images opened in a multi-image session
ListImages == {"a", "b"}

\* native size of each image of the session
ImageInfo ==
    [a |-> [width |-> 80, height |-> 60],
     b |-> [width |-> 48, height |-> 64],
     c |-> [width |-> 20, height |-> 30]]

SeqToSet(q) == {q[i] : i \in 1..Len(q)}

RECURSIVE SeqFilterOut(_, _)
SeqFilterOut(q, id) ==
    IF q = <<>> THEN <<>>
    ELSE IF Head(q) = id THEN SeqFilterOut(Tail(q), id)
    ELSE <<Head(q)>> \o SeqFilterOut(Tail(q), id)

\* useImageItems.active: the id of the active item ("" when the list is empty)
ActiveOf(its, aid) ==
    IF aid \in SeqToSet(its) THEN aid
    ELSE IF Len(its) > 0 THEN its[1] ELSE ""

(***************************************************************************)
(* Crop page state (ImageCropPage)                                         *)
(***************************************************************************)
ZeroRect == [x |-> 0, y |-> 0, w |-> 0, h |-> 0]

\* absent cache entry / absent rule: modeValue = ""
NoState == [modeValue |-> "", customRatio |-> Undefined, rect |-> ZeroRect]
NoRule ==
    [modeValue |-> "", customRatio |-> Undefined,
     rectX |-> R(0), rectY |-> R(0), rectW |-> R(0), rectH |-> R(0),
     rectCx |-> Undefined, rectCy |-> Undefined, rectSize |-> Undefined]

getRatioByValue(value) ==
    IF value = "1:1" THEN <<1, 1>>
    ELSE IF value = "9:16" THEN <<9, 16>>
    ELSE IF value = "16:9" THEN <<16, 9>>
    ELSE IF value = "4:5" THEN <<4, 5>>
    ELSE IF value = "2:3" THEN <<2, 3>>
    ELSE IF value = "4:3" THEN <<4, 3>>
    ELSE IF value = "3:2" THEN <<3, 2>>
    ELSE IF value = "circle" THEN <<1, 1>>
    ELSE Undefined

\* the mode memo / toModeFromState
toModeFromState(state) ==
    IF state.modeValue = "free" THEN [kind |-> "free", ratio |-> Undefined]
    ELSE IF state.modeValue = "circle" THEN [kind |-> "circle", ratio |-> Undefined]
    ELSE IF state.modeValue = "custom"
        THEN IF state.customRatio # Undefined
                  /\ state.customRatio[1] > 0 /\ state.customRatio[2] > 0
             THEN [kind |-> "ratio",
                   ratio |-> Norm(state.customRatio[1], state.customRatio[2])]
             ELSE [kind |-> "free", ratio |-> Undefined]
    ELSE IF getRatioByValue(state.modeValue) = Undefined
        THEN [kind |-> "free", ratio |-> Undefined]
    ELSE [kind |-> "ratio", ratio |-> getRatioByValue(state.modeValue)]

buildRuleFromCurrent(info, mv, cr, rct) ==
    LET safeW == IF info.width = 0 THEN 1 ELSE info.width
        safeH == IF info.height = 0 THEN 1 ELSE info.height
        minEdge == IMax(1, IMin(safeW, safeH))
        circle == mv = "circle"
    IN  The({[modeValue |-> mv, customRatio |-> cr,
              rectX |-> Norm(r.x, safeW), rectY |-> Norm(r.y, safeH),
              rectW |-> Norm(r.w, safeW), rectH |-> Norm(r.h, safeH),
              rectCx |-> IF circle THEN RDiv(RAdd(R(r.x), <<r.w, 2>>), R(safeW))
                         ELSE Undefined,
              rectCy |-> IF circle THEN RDiv(RAdd(R(r.y), <<r.h, 2>>), R(safeH))
                         ELSE Undefined,
              rectSize |-> IF circle THEN Norm(IMin(r.w, r.h), minEdge) ELSE Undefined]
             : r \in {clampRect(RatRect(rct), info.width, info.height)}})

buildStateFromRule(rule, targetInfo) ==
    IF rule.modeValue = "circle" /\ rule.rectCx # Undefined
         /\ rule.rectCy # Undefined /\ rule.rectSize # Undefined
    THEN LET minEdge == IMax(1, IMin(targetInfo.width, targetInfo.height))
         IN  The({LET x == MathRound(RSub(RMul(rule.rectCx, R(targetInfo.width)),
                                          <<size, 2>>))
                      y == MathRound(RSub(RMul(rule.rectCy, R(targetInfo.height)),
                                          <<size, 2>>))
                  IN  [modeValue |-> rule.modeValue, customRatio |-> rule.customRatio,
                       rect |-> clampRect(RatRect([x |-> x, y |-> y, w |-> size, h |-> size]),
                                          targetInfo.width, targetInfo.height)]
                  : size \in {IMax(1, MathRound(RMul(rule.rectSize, R(minEdge))))}})
    ELSE [modeValue |-> rule.modeValue, customRatio |-> rule.customRatio,
          rect |-> clampRect(
              RatRect([x |-> MathRound(RMul(rule.rectX, R(targetInfo.width))),
                       y |-> MathRound(RMul(rule.rectY, R(targetInfo.height))),
                       w |-> MathRound(RMul(rule.rectW, R(targetInfo.width))),
                       h |-> MathRound(RMul(rule.rectH, R(targetInfo.height)))]),
              targetInfo.width, targetInfo.height)]

(***************************************************************************)
(* State                                                                   *)
(***************************************************************************)
VARIABLES
    \* useImageItems
    items,              \* sequence of image ids, in list order
    activeId,           \* "" when none
    usedIds,            \* ids handed out by makeId so far (never reused)
    \* ImageCropPage
    modeValue, customRatio, rect, appliedRule,
    lastActiveIdRef, skipModeResetRef, perImageStateRef,
    cropDeps,           \* the dependency values of the last effects pass
    \* CanvasImageViewer
    imageRef,           \* id of the bitmap the viewer has loaded, "" when none
    zoomRef, panRef, rotationRef, viewStateRef,
    isDragging, dragStart, panStart,
    \* CropOverlay
    view, dragRef,
    drags,              \* number of drags started so far (bounded by MaxDrags)
    \* a point carried through the overlay's coordinate conversions
    mapRotation, mapOrig, mapP, mapQ, mapSpace, mapSteps,
    \* a call of the watermark page's wrapSigned
    wrapValue, wrapPeriod, wrapResult, wrapCalled,
    viewSteps,          \* wheel and zoom-button steps so far (bounded by MaxViewSteps)
    \* a batch export: the page's buildAllExports under the layout's
    \* handlePrimaryAction
    batchTool,          \* "crop", "watermark" or "mosaic"
    batchItems,         \* the items of the page when the export starts
    batchFails,         \* the images whose export throws
    batchPos,           \* index of the loop's next item, 0 when no loop runs
    batchPhase,         \* where the loop body is: "next", "exporting" or "yield"
    batchLog,           \* the exports started and finished and the yields, in order
    payloads,           \* buildAllExports' local list (ids of the images exported)
    pageError,          \* the page's error state is set
    isProcessingOpen,   \* the processing dialog is shown
    processingStatus,   \* "processing", "success", "error"
    downloadPayloads,   \* [set, list]: set is FALSE for null
    \* ImageWatermarkPage (with the image list in items, activeId)
    wmStyle,            \* the panel's settings that a rule copies unchanged
    wmMode,             \* positionMode: "single" or "tile"
    wmPosition,         \* NullPoint or the single-mode position (image pixels)
    wmTileOffset,       \* the tile offset (image pixels)
    wmEdits,            \* panel edits, drags and broadcasts so far (bounded by MaxWmEdits)
    wmAppliedRule, perImageRuleRef, wmLastActiveIdRef,
    wmExported,         \* the rule the last batch export used for each image
    \* ImageMosaicPage (with the image list in items, activeId)
    maskCanvasRef,      \* "none", or the image whose strokes the mask canvas holds
    maskDirty,
    lastLoadedIdRef,
    msPerImageStateRef, \* the mosaic page's perImageStateRef
    msAppliedRule,      \* "" for null, else the settings of the "apply to all" rule
    msLoading,          \* the load effect's loadImage is in flight
    msSettings,         \* the panel: effectType, strength, blurStrength, brushSize, mode
    \* a call of an export's canvasToBlob
    encSettings, encFormat, encQuality, encCalled,
    \* the mosaic page's downsampled canvases
    dsInfo, dsStrength, dsPreview, dsExport,
    \* the watermark page in tile mode
    tlImage, tlStyle, tileStagger, tlOffset,
    \* the layout's export runs and its processing overlay
    processingRunIdRef, ovRuns, downloadBusy, ovLastInput, dismissedRuns,
    \* the pointer event the crop overlay handled in the last step
    ptrEvent,
    \* a viewer rotated by presses of its rotate-right button, and a mapped point
    rtImage, rtPoint, rtPresses, rtRotation, rtView, rtMapped,
    \* the compress page: list, jobs, progress timers and runs of the job-queue effect
    cmpItems, cmpUsed, cmpJobs, cmpTimers, cmpRunId, cmpRuns,
    \* a viewer whose image is switched, and the snapshot its overlay polls
    pvImage, pvLoaded, pvRotation, pvViewState, pvView, pvPolled,
    \* the loads the viewer has started, its imageRef and the bitmap on its canvas
    ldLoads, ldImageRef, ldCanvas,
    \* a viewer in a container that is resized: the image of its first render, its image, its container and the ViewState recorded
    rzMounted, rzImage, rzLoaded, rzWidth, rzRotation, rzViewState,
    \* useImageItems: the list, the active id, the addFiles calls in flight and the ids made
    uiItems, uiActiveId, uiPending, uiUsed,
    \* 'download all': the payloads' filenames, the loop's position, nameCounts, the archive's entries, and whether the archive has been made
    zpPayloads, zpPos, nameCounts, zpZip, zpDone

listVars == <<items, activeId, usedIds>>
cropPageVars ==
    <<modeValue, customRatio, rect, appliedRule,
      lastActiveIdRef, skipModeResetRef, perImageStateRef, cropDeps>>
cropVars == <<listVars, cropPageVars>>
viewerVars == <<imageRef, zoomRef, panRef, rotationRef, viewStateRef>>
panDragVars == <<isDragging, dragStart, panStart>>
exportVars == <<encSettings, encFormat, encQuality, encCalled>>
dsVars == <<dsInfo, dsStrength, dsPreview, dsExport>>
tileVars == <<tlImage, tlStyle, tileStagger, tlOffset>>
ovVars == <<processingRunIdRef, ovRuns, downloadBusy, ovLastInput, dismissedRuns>>
overlayVars == <<view, dragRef, drags>>
ptrVars == <<ptrEvent>>
zipVars == <<zpPayloads, zpPos, nameCounts, zpZip, zpDone>>
uiVars == <<uiItems, uiActiveId, uiPending, uiUsed>>
rzVars == <<rzMounted, rzImage, rzLoaded, rzWidth, rzRotation, rzViewState>>
loadVars == <<ldLoads, ldImageRef, ldCanvas>>
pollVars == <<pvImage, pvLoaded, pvRotation, pvViewState, pvView, pvPolled>>
cmpVars == <<cmpItems, cmpUsed, cmpJobs, cmpTimers, cmpRunId, cmpRuns>>
rotVars == <<rtImage, rtPoint, rtPresses, rtRotation, rtView, rtMapped>>
mapVars == <<mapRotation, mapOrig, mapP, mapQ, mapSpace, mapSteps>>
wrapVars == <<wrapValue, wrapPeriod, wrapResult, wrapCalled>>
batchVars ==
    <<batchTool, batchItems, batchFails, batchPos, batchPhase, batchLog, payloads,
      pageError,
      isProcessingOpen, processingStatus, downloadPayloads>>
wmVars ==
    <<wmStyle, wmMode, wmPosition, wmTileOffset, wmEdits, wmAppliedRule,
      perImageRuleRef, wmLastActiveIdRef, wmExported>>
msVars ==
    <<maskCanvasRef, maskDirty, lastLoadedIdRef, msPerImageStateRef, msAppliedRule,
      msLoading, msSettings>>

\* everything outside the crop tool's page, viewer and overlay
nonCropVars == <<panDragVars, mapVars, wrapVars, viewSteps, batchVars, wmVars, msVars,
      exportVars, dsVars, tileVars, ovVars, ptrVars, rotVars, cmpVars, pollVars,
      loadVars, rzVars, uiVars, zipVars>>
\* everything a step of the rotated viewer leaves alone
nonRotVars ==
    <<cropVars, viewerVars, panDragVars, overlayVars, ptrVars, mapVars, wrapVars, viewSteps,
      batchVars, wmVars, msVars, exportVars, dsVars, tileVars, ovVars, cmpVars, pollVars,
      loadVars, rzVars, uiVars, zipVars>>
\* everything a step of the compress page leaves alone
nonCmpVars ==
    <<cropVars, viewerVars, panDragVars, overlayVars, ptrVars, rotVars, mapVars, wrapVars,
      viewSteps, batchVars, wmVars, msVars, exportVars, dsVars, tileVars, ovVars,
      pollVars, loadVars, rzVars, uiVars, zipVars>>
\* everything a step of the polled viewer leaves alone
nonPollVars ==
    <<cropVars, viewerVars, panDragVars, overlayVars, ptrVars, rotVars, cmpVars, mapVars,
      wrapVars, viewSteps, batchVars, wmVars, msVars, exportVars, dsVars, tileVars, ovVars,
      loadVars, rzVars, uiVars, zipVars>>
\* everything a load of the viewer leaves alone
nonLoadVars ==
    <<cropVars, viewerVars, panDragVars, overlayVars, ptrVars, rotVars, cmpVars, pollVars,
      mapVars, wrapVars, viewSteps, batchVars, wmVars, msVars, exportVars, dsVars,
      tileVars, ovVars, rzVars, uiVars, zipVars>>
\* everything a step of the viewer in the resized container leaves alone
nonRzVars ==
    <<cropVars, viewerVars, panDragVars, overlayVars, ptrVars, rotVars, cmpVars, pollVars,
      loadVars, mapVars, wrapVars, viewSteps, batchVars, wmVars, msVars, exportVars,
      dsVars, tileVars, ovVars, uiVars, zipVars>>
\* everything a step of useImageItems leaves alone
nonUiVars ==
    <<cropVars, viewerVars, panDragVars, overlayVars, ptrVars, rotVars, cmpVars, pollVars,
      loadVars, rzVars, mapVars, wrapVars, viewSteps, batchVars, wmVars, msVars,
      exportVars, dsVars, tileVars, ovVars, zipVars>>
\* everything a step of 'download all' leaves alone
nonZipVars ==
    <<cropVars, viewerVars, panDragVars, overlayVars, ptrVars, rotVars, cmpVars, pollVars,
      loadVars, rzVars, uiVars, mapVars, wrapVars, viewSteps, batchVars, wmVars, msVars,
      exportVars, dsVars, tileVars, ovVars>>
\* everything a step of the viewer leaves alone
nonViewerVars ==
    <<cropVars, panDragVars, overlayVars, mapVars, wrapVars, batchVars, wmVars, msVars,
      exportVars, dsVars, tileVars, ovVars, ptrVars, rotVars, cmpVars, pollVars,
      loadVars, rzVars, uiVars, zipVars>>
\* everything a mouse-down, touch-start or release on the viewer leaves alone
nonPanDragVars ==
    <<cropVars, viewerVars, overlayVars, mapVars, wrapVars, viewSteps, batchVars,
      wmVars, msVars, exportVars, dsVars, tileVars, ovVars, ptrVars, rotVars, cmpVars,
      pollVars, loadVars, rzVars, uiVars, zipVars>>
\* everything outside the export settings and the encoder call
nonExportVars ==
    <<cropVars, viewerVars, panDragVars, overlayVars, mapVars, wrapVars, viewSteps,
      batchVars, wmVars, msVars, dsVars, tileVars, ovVars, ptrVars, rotVars, cmpVars,
      pollVars, loadVars, rzVars, uiVars, zipVars>>
\* everything outside the mosaic effect's canvases
nonDsVars ==
    <<cropVars, viewerVars, panDragVars, overlayVars, mapVars, wrapVars, viewSteps,
      batchVars, wmVars, msVars, exportVars, tileVars, ovVars, ptrVars, rotVars, cmpVars,
      pollVars, loadVars, rzVars, uiVars, zipVars>>
\* everything outside the tile settings
nonTileVars ==
    <<cropVars, viewerVars, panDragVars, overlayVars, mapVars, wrapVars, viewSteps,
      batchVars, wmVars, msVars, exportVars, dsVars, ovVars, ptrVars, rotVars, cmpVars,
      pollVars, loadVars, rzVars, uiVars, zipVars>>
\* everything outside the layout's overlay and the pages' export loop
nonLayoutVars ==
    <<cropVars, viewerVars, panDragVars, overlayVars, mapVars, wrapVars, viewSteps,
      wmVars, msVars, exportVars, dsVars, tileVars, ptrVars, rotVars, cmpVars, pollVars,
      loadVars, rzVars, uiVars, zipVars>>
\* the variables of a page's export loop
batchLoopVars ==
    <<batchTool, batchItems, batchFails, batchPos, batchPhase, batchLog, payloads,
      pageError>>
nonMapVars ==
    <<cropVars, viewerVars, panDragVars, overlayVars, wrapVars, viewSteps, batchVars, wmVars, msVars,
      exportVars, dsVars, tileVars, ovVars, ptrVars, rotVars, cmpVars, pollVars,
      loadVars, rzVars, uiVars, zipVars>>
nonWrapVars ==
    <<cropVars, viewerVars, panDragVars, overlayVars, mapVars, viewSteps, batchVars, wmVars, msVars,
      exportVars, dsVars, tileVars, ovVars, ptrVars, rotVars, cmpVars, pollVars,
      loadVars, rzVars, uiVars, zipVars>>
nonBatchVars ==
    <<cropVars, viewerVars, panDragVars, overlayVars, mapVars, wrapVars, viewSteps, wmVars, msVars,
      exportVars, dsVars, tileVars, ovVars, ptrVars, rotVars, cmpVars, pollVars,
      loadVars, rzVars, uiVars, zipVars>>
\* everything outside the watermark page and its image list
nonWmVars ==
    <<cropPageVars, viewerVars, panDragVars, overlayVars, mapVars, wrapVars, viewSteps,
      batchVars, msVars, exportVars, dsVars, tileVars, ovVars, ptrVars, rotVars, cmpVars,
      pollVars, loadVars, rzVars, uiVars, zipVars>>
\* everything outside the mosaic page and its image list
nonMsVars ==
    <<cropPageVars, viewerVars, panDragVars, overlayVars, mapVars, wrapVars, viewSteps,
      batchVars, wmVars, exportVars, dsVars, tileVars, ovVars, ptrVars, rotVars, cmpVars,
      pollVars, loadVars, rzVars, uiVars, zipVars>>

vars ==
    <<cropVars, viewerVars, panDragVars, overlayVars, mapVars, wrapVars, viewSteps, batchVars,
      wmVars, msVars, exportVars, dsVars, tileVars, ovVars, ptrVars, rotVars, cmpVars,
      pollVars, loadVars, rzVars, uiVars, zipVars>>

(***************************************************************************)
(* Bounds of the model                                                     *)
(***************************************************************************)
\* size of the viewer container (CSS px)
Container == [width |-> 140, height |-> 140]
ContainerWidth == Container.width
ContainerHeight == Container.height
\* screen points at which pointer-move events arrive: outside the image at
\* the top left and the bottom right, and inside it
PointerPoints == {<<0, 0>>, <<140, 140>>, <<90, 60>>, <<50, 100>>}
\* at most MaxDrags drags are started in a session
MaxDrags == 1
\* at most MaxItems images are in the list at a time
MaxItems == 2

\* the images a single-image session is opened with
SingleImages == {"a", "c"}

\* the mode values the ratio select offers in the model
ModeValues == {"free", "16:9", "circle"}

ZeroPoint == [x |-> R(0), y |-> R(0)]
NoView == draw(0, 0, 1, 1, 0, R(0), ZeroPoint)
NoDrag ==
    [handle |-> "none", startEff |-> RatRect(ZeroRect), startPt |-> ZeroPoint,
     startRatio |-> Undefined]

(***************************************************************************)
(* Crop page: rendering and effects                                        *)
(*                                                                         *)
(* A handler's state updates cause a render; the effects whose            *)
(* dependencies changed then run in declaration order, each seeing the     *)
(* state of that render, writing refs at once and queueing state updates   *)
(* for the next render.  Renders repeat until no state update is queued.   *)
(***************************************************************************)
\* the page state as one record
CropState ==
    [items |-> items, activeId |-> activeId, appliedRule |-> appliedRule,
     modeValue |-> modeValue, customRatio |-> customRatio, rect |-> rect,
     lastActiveIdRef |-> lastActiveIdRef, skipModeResetRef |-> skipModeResetRef,
     perImageStateRef |-> perImageStateRef, cropDeps |-> cropDeps]

\* the values the three effects depend on, as rendered
CropRendered(c) ==
    [activeId |-> c.activeId, info |-> ActiveOf(c.items, c.activeId),
     appliedRule |-> c.appliedRule, modeValue |-> c.modeValue,
     customRatio |-> c.customRatio, rect |-> c.rect]

\* active-image switch effect, deps [activeId, info, appliedRule]
SwitchEffectRuns(cur, prev) ==
    <<cur.activeId, cur.info, cur.appliedRule>> # <<prev.activeId, prev.info, prev.appliedRule>>
\* cache-save effect, deps [activeId, info, modeValue, customRatioW, customRatioH, rect]
SaveEffectRuns(cur, prev) == cur # prev
\* mode-reset effect, deps [mode, info]; mode is memoised on
\* [modeValue, customRatioW, customRatioH]
ModeResetEffectRuns(cur, prev) ==
    <<cur.modeValue, cur.customRatio, cur.info>> # <<prev.modeValue, prev.customRatio, prev.info>>

\* the state the switch effect sets for the newly active image
SwitchTarget(cached, rule, info) ==
    IF cached.modeValue # ""
    THEN [modeValue |-> cached.modeValue, customRatio |-> cached.customRatio,
          rect |-> clampRect(RatRect(cached.rect), info.width, info.height)]
    ELSE IF rule.modeValue # ""
    THEN [modeValue |-> rule.modeValue, customRatio |-> rule.customRatio,
          rect |-> clampRect(
              RatRect([x |-> MathRound(RMul(rule.rectX, R(info.width))),
                       y |-> MathRound(RMul(rule.rectY, R(info.height))),
                       w |-> MathRound(RMul(rule.rectW, R(info.width))),
                       h |-> MathRound(RMul(rule.rectH, R(info.height)))]),
              info.width, info.height)]
    ELSE [modeValue |-> "free", customRatio |-> Undefined,
          rect |-> initRect(info.width, info.height)]

\* the switch effect sets skipModeResetRef when it restores a cache entry or a rule
SwitchSetsSkip(cached, rule) == cached.modeValue # "" \/ rule.modeValue # ""

\* the rect the mode-reset effect sets
ModeResetRect(mode, info) ==
    LET ratio == getRatio(mode)
    IN  The({IF ratio = Undefined \/ ratio[1] = 0 THEN baseRect
             ELSE fitRectToRatio(baseRect, ratio, info.width, info.height)
             : baseRect \in {initRect(info.width, info.height)}})

\* the mode-reset effect resets the rect unless skipModeResetRef is set
ModeResetApplies(runs, hasInfo, skip) == runs /\ hasInfo /\ ~skip

\* the effects of one render
CropEffects(c) ==
    The({LET hasInfo == cur.info # ""
             info == ImageInfo[cur.info]
             e1 == SwitchEffectRuns(cur, c.cropDeps)
             e2 == SaveEffectRuns(cur, c.cropDeps)
             e3 == ModeResetEffectRuns(cur, c.cropDeps)
             switch == e1 /\ hasInfo /\ c.activeId # "" /\ c.activeId # c.lastActiveIdRef
             target == SwitchTarget(c.perImageStateRef[c.activeId], c.appliedRule, info)
             skip1 == IF switch /\ SwitchSetsSkip(c.perImageStateRef[c.activeId], c.appliedRule)
                      THEN TRUE ELSE c.skipModeResetRef
             resets == ModeResetApplies(e3, hasInfo, skip1)
             mode == toModeFromState([modeValue |-> c.modeValue,
                                      customRatio |-> c.customRatio])
         IN  [c EXCEPT
                 !.lastActiveIdRef = IF e1 /\ ~hasInfo THEN ""
                                     ELSE IF switch THEN c.activeId ELSE @,
                 !.perImageStateRef =
                     IF e2 /\ c.activeId # "" /\ hasInfo
                     THEN [@ EXCEPT ![c.activeId] =
                             [modeValue |-> c.modeValue, customRatio |-> c.customRatio,
                              rect |-> clampRect(RatRect(c.rect), info.width, info.height)]]
                     ELSE @,
                 !.skipModeResetRef = IF e3 /\ hasInfo THEN FALSE ELSE skip1,
                 !.modeValue = IF switch THEN target.modeValue ELSE @,
                 !.customRatio = IF switch THEN target.customRatio ELSE @,
                 !.rect = IF resets THEN ModeResetRect(mode, info)
                          ELSE IF switch THEN target.rect ELSE @,
                 !.cropDeps = cur]
         : cur \in {CropRendered(c)}})

\* render and run effects until no state update is queued
RECURSIVE CropSettle(_)
CropSettle(c) ==
    IF CropRendered(c) = c.cropDeps THEN c
    ELSE The({CropSettle(n) : n \in {CropEffects(c)}})

\* the page state after a handler's updates c have been rendered and settled
CropCommit(c) ==
    \E d \in {CropSettle(n) : n \in {c}} :
        /\ items' = d.items /\ activeId' = d.activeId
        /\ appliedRule' = d.appliedRule /\ modeValue' = d.modeValue
        /\ customRatio' = d.customRatio /\ rect' = d.rect
        /\ lastActiveIdRef' = d.lastActiveIdRef
        /\ skipModeResetRef' = d.skipModeResetRef
        /\ perImageStateRef' = d.perImageStateRef
        /\ cropDeps' = d.cropDeps

(***************************************************************************)
(* Image list handlers (useImageItems) as wired by the crop page           *)
(***************************************************************************)
\* the viewer and the overlay are mounted only while an image is shown
ViewerAfterListChange(its) ==
    IF Len(its) = 0
    THEN /\ imageRef' = "" /\ zoomRef' = R(1) /\ panRef' = ZeroPoint
         /\ rotationRef' = 0 /\ viewStateRef' = NoView
         /\ view' = NoView /\ dragRef' = NoDrag /\ UNCHANGED drags
    ELSE UNCHANGED <<viewerVars, overlayVars>>

\* addFiles, at the moment the decoded files are appended
AddFiles(newIds) ==
    /\ Len(newIds) > 0
    /\ Len(items) + Len(newIds) <= MaxItems
    /\ SeqToSet(newIds) \cap usedIds = {}
    /\ usedIds' = usedIds \cup SeqToSet(newIds)
    /\ CropCommit([CropState EXCEPT
            !.items = items \o newIds,
            !.activeId = IF activeId # "" THEN activeId ELSE newIds[1]])
    /\ UNCHANGED <<viewerVars, overlayVars>>

\* images.onSelect (thumb strip, shown for more than one image)
Select(id) ==
    /\ Len(items) > 1 /\ id \in SeqToSet(items)
    /\ id # activeId
    /\ CropCommit([CropState EXCEPT !.activeId = id])
    /\ UNCHANGED <<usedIds, viewerVars, overlayVars>>

\* removeOne without its setActiveId
removeOneKeepsActive(its, aid, id) ==
    [items |-> SeqFilterOut(its, id), activeId |-> aid]

\* useImageItems.removeOne: the list and the active id it sets
removeOne(its, aid, id) ==
    LET nextIds == SeqFilterOut(its, id)
    IN  [items |-> nextIds,
         activeId |-> IF aid = id
                      THEN (IF Len(nextIds) > 0 THEN nextIds[1] ELSE "")
                      ELSE aid]

\* images.onRemove of the crop page
CropRemove(id) ==
    LET n == removeOne(items, activeId, id)
    IN  /\ Len(items) > 1 /\ id \in SeqToSet(items)
        /\ CropCommit([CropState EXCEPT !.items = n.items, !.activeId = n.activeId])
        /\ UNCHANGED usedIds
        /\ ViewerAfterListChange(n.items)

\* images.onApplyToAll of the crop page
CropApplyToAll ==
    LET a == ActiveOf(items, activeId)
        nextRule == buildRuleFromCurrent(ImageInfo[a], modeValue, customRatio, rect)
    IN  /\ Len(items) > 1
        /\ CropCommit([CropState EXCEPT
              !.appliedRule = nextRule,
              !.perImageStateRef =
                  [id \in ImageIds |->
                      IF id \in SeqToSet(items)
                      THEN buildStateFromRule(nextRule, ImageInfo[id])
                      ELSE perImageStateRef[id]]])
        /\ UNCHANGED <<usedIds, viewerVars, overlayVars>>

\* onReselect of the crop page (the toolbar offers it for a single image)
CropReselect ==
    /\ Len(items) = 1
    /\ CropCommit([CropState EXCEPT
          !.items = <<>>, !.activeId = "", !.rect = ZeroRect,
          !.modeValue = "free", !.customRatio = Undefined,
          !.appliedRule = NoRule,
          !.perImageStateRef = [id \in ImageIds |-> NoState]])
    /\ UNCHANGED usedIds
    /\ ViewerAfterListChange(<<>>)

\* CropRatioSelect.onChange
SetMode(v) ==
    /\ ActiveOf(items, activeId) # ""
    /\ dragRef = NoDrag        \* the pointer is captured while dragging
    /\ v # modeValue
    /\ CropCommit([CropState EXCEPT
          !.modeValue = v,
          !.customRatio = IF v = "custom"
                          THEN (IF customRatio = Undefined THEN <<1, 1>> ELSE customRatio)
                          ELSE Undefined])
    /\ UNCHANGED <<usedIds, viewerVars, overlayVars>>

(***************************************************************************)
(* Viewer (CanvasImageViewer)                                              *)
(***************************************************************************)
\* draw() with the props and refs of the moment
Redraw(info, r, z, p) ==
    draw(ContainerWidth, ContainerHeight, info.width, info.height, r, z, p)

\* img.onload of the image-load effect, for the image currently shown
ViewerImageLoaded ==
    LET a == ActiveOf(items, activeId)
    IN  /\ a # "" /\ imageRef # a
        /\ imageRef' = a
        /\ zoomRef' = R(1) /\ panRef' = ZeroPoint /\ rotationRef' = 0
        /\ viewStateRef' = Redraw(ImageInfo[a], 0, R(1), ZeroPoint)
        /\ UNCHANGED <<cropVars, overlayVars>>

\* api.rotateLeft90 / api.rotateRight90 and the redraw they cause
Rotate(delta) ==
    LET a == ActiveOf(items, activeId)
        next == (rotationRef + delta) % 360
    IN  /\ a # ""
        /\ dragRef = NoDrag    \* the pointer is captured while dragging
        /\ rotationRef' = next
        /\ viewStateRef' = IF imageRef = "" THEN viewStateRef
                           ELSE Redraw(ImageInfo[a], next, zoomRef, panRef)
        /\ UNCHANGED <<imageRef, zoomRef, panRef>>
        /\ UNCHANGED <<cropVars, overlayVars>>

(***************************************************************************)
(* Crop overlay (CropOverlay)                                              *)
(***************************************************************************)
\* the tick of the view-state polling effect
SameView(next, cur) ==
    /\ next # NoView /\ cur # NoView
    /\ next.boxX = cur.boxX /\ next.boxY = cur.boxY
    /\ next.boxW = cur.boxW /\ next.boxH = cur.boxH
    /\ next.rotation = cur.rotation

PollView ==
    /\ ActiveOf(items, activeId) # ""
    /\ ~SameView(viewStateRef, view)
    /\ view # viewStateRef
    /\ view' = viewStateRef
    /\ UNCHANGED <<cropVars, viewerVars, dragRef, drags>>

\* the rect as the overlay draws it
ScreenRect(rct, v) ==
    effectiveToScreenRect(clampEffectiveRect(rectOriginalToEffective(RatRect(rct), v), v), v)

startDrag(handle) ==
    /\ ActiveOf(items, activeId) # ""
    /\ view # NoView
    /\ dragRef = NoDrag
    /\ drags < MaxDrags
    /\ drags' = drags + 1
    /\ \E p \in {HandleScreenPoint(handle, ScreenRect(rect, view))},
          startEff \in {clampEffectiveRect(rectOriginalToEffective(RatRect(rect), view),
                                           view)} :
          dragRef' =
              [handle |-> handle, startEff |-> startEff,
               startPt |-> screenToEffectivePoint(p.x, p.y, view),
               startRatio |-> IF RLt(R(0), startEff.h)
                              THEN RDiv(startEff.w, startEff.h) ELSE Undefined]
    /\ UNCHANGED <<cropVars, viewerVars, view>>

\* pointer-move at screen point (px, py) while dragging
PointerMove(px, py, shiftKey) ==
    LET info == ImageInfo[ActiveOf(items, activeId)]
        mode == toModeFromState([modeValue |-> modeValue, customRatio |-> customRatio])
        pt == screenToEffectivePoint(R(px), R(py), view)
        next == onMove(dragRef, pt, shiftKey, getRatio(mode), view, info.width, info.height)
    IN  /\ ActiveOf(items, activeId) # ""
        /\ view # NoView
        /\ dragRef # NoDrag
        /\ CropCommit([CropState EXCEPT
              !.rect = onRectChange(next, info.width, info.height)])
        /\ UNCHANGED <<usedIds, viewerVars, overlayVars>>

endDrag ==
    /\ dragRef # NoDrag
    /\ dragRef' = NoDrag
    /\ UNCHANGED <<cropVars, viewerVars, view, drags>>

(***************************************************************************)
(* Specification of the crop tool with one image: viewer, overlay, page    *)
(***************************************************************************)
\* the conversion probe at rest
MapIdle ==
    /\ mapRotation = 0 /\ mapOrig = "a" /\ mapP = ZeroPoint /\ mapQ = ZeroPoint
    /\ mapSpace = "effective" /\ mapSteps = 0

\* the watermark page at construction
NoWmRule ==
    [style |-> "", positionMode |-> "",
     singleOffsetX |-> Undefined, singleOffsetY |-> Undefined,
     tileOffsetX |-> Undefined, tileOffsetY |-> Undefined]
\* position = null
NullPoint == [x |-> Undefined, y |-> Undefined]
WmIdle ==
    /\ wmStyle = "s0" /\ wmMode = "single" /\ wmPosition = NullPoint
    /\ wmTileOffset = ZeroPoint /\ wmEdits = 0
    /\ wmAppliedRule = NoWmRule
    /\ perImageRuleRef = [id \in ImageIds |-> NoWmRule]
    /\ wmLastActiveIdRef = ""
    /\ wmExported = [id \in ImageIds |-> NoWmRule]  \* nothing exported

\* the mosaic page at construction
\* the panel's five effect parameters are one value: "p0" stands for the
\* initial ones (mosaic, 50, 8, 28, brush), "p1" for any others
MsSettingsValues == {"p0", "p1"}
NoEntry == [has |-> FALSE, settings |-> "", maskData |-> "null"]
MsIdle ==
    /\ maskCanvasRef = "none" /\ maskDirty = FALSE /\ lastLoadedIdRef = ""
    /\ msPerImageStateRef = [id \in ImageIds |-> NoEntry]
    /\ msAppliedRule = "" /\ msLoading = FALSE /\ msSettings = "p0"

\* no batch export has been started
NoPayloads == [set |-> FALSE, list |-> <<>>]
BatchIdle ==
    /\ batchTool = "crop" /\ batchItems = <<>> /\ batchFails = {}
    /\ batchPos = 0 /\ batchPhase = "next" /\ batchLog = <<>>
    /\ payloads = <<>> /\ pageError = FALSE
    /\ isProcessingOpen = FALSE /\ processingStatus = "processing"
    /\ downloadPayloads = NoPayloads

\* the export settings of the dialog's defaults; no image has been encoded
DEFAULT_SETTINGS == [format |-> "image/png", quality |-> 85, optimizeForWeb |-> FALSE]
ExportIdle ==
    /\ encSettings = DEFAULT_SETTINGS /\ encFormat = "" /\ encQuality = R(0)
    /\ encCalled = FALSE

\* no canvas of the mosaic effect has been built
NoCanvas == [width |-> 0, height |-> 0]
DsIdle ==
    /\ dsInfo = NoCanvas /\ dsStrength = 50 /\ dsPreview = NoCanvas
    /\ dsExport = NoCanvas

\* the tile settings at construction
TileIdle ==
    /\ tlImage = "" /\ tlStyle = "s0" /\ tileStagger = TRUE /\ tlOffset = ZeroPoint

\* no export run has been started by the layout
MaxRunId == 5
NoRun == [phase |-> "none", exported |-> 0]
OvIdle ==
    /\ processingRunIdRef = 0 /\ ovRuns = [r \in 1..MaxRunId |-> NoRun]
    /\ downloadBusy = FALSE /\ ovLastInput = "none" /\ dismissedRuns = {}

\* no pointer event has reached the crop overlay
NoPointerEvent == [kind |-> "none", target |-> ""]
PtrIdle == ptrEvent = NoPointerEvent

\* no image is shown in the rotated viewer
RotIdle ==
    /\ rtImage = [width |-> 1, height |-> 1] /\ rtPoint = ZeroPoint
    /\ rtPresses = 0 /\ rtRotation = 0 /\ rtView = NoView /\ rtMapped = NullPoint

\* the compress page at construction
MaxCmpRuns == 4
NoCmpRun == [items |-> <<>>, pos |-> 0, phase |-> "none", cancelled |-> FALSE]
CmpIdle ==
    /\ cmpItems = <<>> /\ cmpUsed = {} /\ cmpJobs = [id \in ImageIds |-> "none"]
    /\ cmpTimers = {} /\ cmpRunId = 0
    /\ cmpRuns = [r \in 1..MaxCmpRuns |-> NoCmpRun]

\* no image is shown in the polled viewer
PollIdle ==
    /\ pvImage = [width |-> 1, height |-> 1] /\ pvLoaded = FALSE /\ pvRotation = 0
    /\ pvViewState = NoView /\ pvView = NoView /\ pvPolled = FALSE

\* the viewer has started no load
LoadIdle == ldLoads = <<>> /\ ldImageRef = "" /\ ldCanvas = ""

\* no viewer is mounted in the resized container
RzIdle ==
    /\ rzMounted = [width |-> 1, height |-> 1] /\ rzImage = [width |-> 1, height |-> 1]
    /\ rzLoaded = FALSE /\ rzWidth = ContainerWidth /\ rzRotation = 0
    /\ rzViewState = NoView

\* useImageItems at construction
UiIdle == uiItems = <<>> /\ uiActiveId = "" /\ uiPending = {} /\ uiUsed = {}

\* filenames: the part before the last dot as a sequence of pieces, and the
\* extension with its dot ("" when the name has no dot)
ZipStems == {<<"a">>, <<"a", "(2)">>, <<"b">>}
ZipNames ==
    {[stem |-> st, ext |-> e] : st \in ZipStems, e \in {".png", ""}}
        \cup {[stem |-> <<>>, ext |-> ""]}
\* the name used for a payload with an empty filename
ImageName == [stem |-> <<"image">>, ext |-> ""]
\* no archive is being made
ZipIdle ==
    /\ zpPayloads = <<>> /\ zpPos = 0
    /\ nameCounts = [n \in ZipNames \cup {ImageName} |-> 0]
    /\ zpZip = {} /\ zpDone = FALSE

\* no call of wrapSigned
WrapIdle ==
    /\ wrapValue = R(0) /\ wrapPeriod = R(0) /\ wrapResult = R(0)
    /\ wrapCalled = FALSE

\* the crop page's state at construction, as a record
CropInitState ==
    [items |-> <<>>, activeId |-> "", appliedRule |-> NoRule,
     modeValue |-> "free", customRatio |-> Undefined, rect |-> ZeroRect,
     lastActiveIdRef |-> "", skipModeResetRef |-> FALSE,
     perImageStateRef |-> [id \in ImageIds |-> NoState],
     cropDeps |-> [activeId |-> "", info |-> "", appliedRule |-> NoRule,
                   modeValue |-> "free", customRatio |-> Undefined, rect |-> ZeroRect]]

\* the page state is d
CropStateIs(d) ==
    /\ items = d.items /\ activeId = d.activeId
    /\ appliedRule = d.appliedRule /\ modeValue = d.modeValue
    /\ customRatio = d.customRatio /\ rect = d.rect
    /\ lastActiveIdRef = d.lastActiveIdRef
    /\ skipModeResetRef = d.skipModeResetRef
    /\ perImageStateRef = d.perImageStateRef
    /\ cropDeps = d.cropDeps

\* no pan drag of the viewer is in progress
PanIdle == isDragging = FALSE /\ dragStart = ZeroPoint /\ panStart = ZeroPoint

\* the overlay before the viewer has drawn
OverlayInit == view = NoView /\ dragRef = NoDrag /\ drags = 0

CropInit ==
    /\ CropStateIs(CropInitState) /\ usedIds = {}
    /\ imageRef = "" /\ zoomRef = R(1) /\ panRef = ZeroPoint /\ rotationRef = 0
    /\ viewStateRef = NoView
    /\ PanIdle
    /\ OverlayInit

\* one pointer-move of a drag
DragStep == \E p \in PointerPoints, sh \in BOOLEAN : PointerMove(p[1], p[2], sh)

CropNext ==
    \/ \E id \in SingleImages :
          Len(items) = 0 /\ AddFiles(<<id>>) /\ UNCHANGED nonCropVars
    \/ \E v \in ModeValues : SetMode(v) /\ UNCHANGED nonCropVars
    \/ ViewerImageLoaded /\ UNCHANGED nonCropVars
    \/ \E d \in {90, 270} : Rotate(d) /\ UNCHANGED nonCropVars
    \/ PollView /\ UNCHANGED nonCropVars
    \/ \E h \in Handles : startDrag(h) /\ UNCHANGED nonCropVars
    \/ DragStep /\ UNCHANGED nonCropVars
    \/ endDrag /\ UNCHANGED nonCropVars

CropSpecInit == CropInit /\ MapIdle /\ WrapIdle /\ viewSteps = 0 /\ BatchIdle /\ WmIdle /\ MsIdle /\ ExportIdle /\ DsIdle /\ TileIdle /\ OvIdle /\ PtrIdle /\ RotIdle /\ CmpIdle /\ PollIdle /\ LoadIdle /\ RzIdle /\ UiIdle /\ ZipIdle

SpecCrop == CropSpecInit /\ [][CropNext]_vars

(***************************************************************************)
(* Properties of the crop rect under drags (SpecCrop)                      *)
(***************************************************************************)
\* the image shown
ActiveInfo == ImageInfo[ActiveOf(items, activeId)]

\* While a drag is in progress the pointer is captured, so the only steps
\* that leave dragRef and the overlay's view as they are, are pointer-moves.
IsDragStep ==
    /\ dragRef # NoDrag /\ dragRef' = dragRef
    /\ view' = view /\ viewStateRef' = viewStateRef

RectInvariant(r, info) ==
    /\ r.x >= 0 /\ r.y >= 0
    /\ r.x + r.w <= info.width /\ r.y + r.h <= info.height
    /\ r.w >= MIN_SIZE /\ r.h >= MIN_SIZE

\* C1 as stated: for any loaded image, any view rotation and any handle,
\* after every drag step the crop rect satisfies x >= 0, y >= 0,
\* x + w <= imageWidth, y + h <= imageHeight, w >= 24 and h >= 24.
C1_RectInvariantAnyImage ==
    [][IsDragStep => RectInvariant(rect', ActiveInfo)]_vars

\* C1, amended: for any loaded image whose width and height are both at
\* least 24, any view rotation and any handle, after every drag step the
\* crop rect satisfies x >= 0, y >= 0, x + w <= imageWidth,
\* y + h <= imageHeight, w >= 24 and h >= 24.
C1_RectInvariant ==
    [][IsDragStep /\ ActiveInfo.width >= MIN_SIZE /\ ActiveInfo.height >= MIN_SIZE
         => RectInvariant(rect', ActiveInfo)]_vars

\* C1 witness: on a rotated view of an image of at least 24 x 24, a corner
\* drag has moved the rect away from where the drag started, up to the
\* image's right edge.
C1_Witness ==
    /\ dragRef # NoDrag /\ dragRef.handle = "se"
    /\ view # NoView /\ view.rotation = 90
    /\ ActiveInfo.width >= MIN_SIZE /\ ActiveInfo.height >= MIN_SIZE
    /\ rectOriginalToEffective(RatRect(rect), view) # dragRef.startEff
    /\ rect.x + rect.w = ActiveInfo.width

\* the ratio the current mode locks, Undefined in free mode
ModeRatio ==
    getRatio(toModeFromState([modeValue |-> modeValue, customRatio |-> customRatio]))

\* |w / h - target| < 0.001
RatioLocked(r, target) ==
    /\ r.h > 0
    /\ RLt(RAbs(RSub(RDiv(R(r.w), R(r.h)), target)), <<1, 1000>>)

\* C2: in fixed-ratio or circular mode, after every drag step with a resize
\* handle the stored crop rect satisfies |w/h - targetRatio| < 0.001, for
\* every view rotation, also when the drag is limited by the image bounds
\* or the minimum size.
C2_RatioLock ==
    [][IsDragStep /\ dragRef.handle # "move" /\ ModeRatio # Undefined
         => RatioLocked(rect', ModeRatio)]_vars

(***************************************************************************)
(* Specification of the point conversions between original and effective   *)
(* (rotated) image space                                                   *)
(***************************************************************************)
MaxConversions == 2

\* coordinates inside [0, size]: the ends, an inner pixel, and fractions
CoordsWithin(size) ==
    {R(0), <<1, 3>>, R(7), <<2 * size - 1, 2>>, R(size)}

\* the size of the space a point lives in
SpaceSize(space, rotation, info) ==
    IF space = "effective" /\ isQuarterTurn(rotation)
    THEN [width |-> info.height, height |-> info.width]
    ELSE info

MapInit ==
    /\ mapRotation \in Rotations
    /\ mapOrig \in ImageIds
    /\ mapSpace \in {"effective", "original"}
    /\ \E x \in CoordsWithin(SpaceSize(mapSpace, mapRotation, ImageInfo[mapOrig]).width),
          y \in CoordsWithin(SpaceSize(mapSpace, mapRotation, ImageInfo[mapOrig]).height) :
            mapP = [x |-> x, y |-> y]
    /\ mapQ = mapP
    /\ mapSteps = 0

MapToOriginal ==
    /\ mapSpace = "effective" /\ mapSteps < MaxConversions
    /\ mapQ' = pointEffectiveToOriginal(mapQ.x, mapQ.y, mapRotation,
                   ImageInfo[mapOrig].width, ImageInfo[mapOrig].height)
    /\ mapSpace' = "original" /\ mapSteps' = mapSteps + 1
    /\ UNCHANGED <<mapRotation, mapOrig, mapP>>
    /\ UNCHANGED nonMapVars

MapToEffective ==
    /\ mapSpace = "original" /\ mapSteps < MaxConversions
    /\ mapQ' = pointOriginalToEffective(mapQ.x, mapQ.y, mapRotation,
                   ImageInfo[mapOrig].width, ImageInfo[mapOrig].height)
    /\ mapSpace' = "effective" /\ mapSteps' = mapSteps + 1
    /\ UNCHANGED <<mapRotation, mapOrig, mapP>>
    /\ UNCHANGED nonMapVars

MapNext == MapToOriginal \/ MapToEffective

MapSpecInit == CropInit /\ WrapIdle /\ viewSteps = 0 /\ BatchIdle /\ WmIdle /\ MapInit /\ MsIdle /\ ExportIdle /\ DsIdle /\ TileIdle /\ OvIdle /\ PtrIdle /\ RotIdle /\ CmpIdle /\ PollIdle /\ LoadIdle /\ RzIdle /\ UiIdle /\ ZipIdle

SpecMap == MapSpecInit /\ [][MapNext]_vars

JsRem(a, b) == RSub(a, RMul(b, R(MathTrunc(RDiv(a, b)))))

wrapSigned(value, period) ==
    IF RLe(period, R(0)) THEN value
    ELSE LET v0 == JsRem(value, period)
             v1 == IF RLt(RHalf(period), v0) THEN RSub(v0, period) ELSE v0
         IN  IF RLt(v1, RNeg(RHalf(period))) THEN RAdd(v1, period) ELSE v1

\* tile offsets and tile steps, in halves of a pixel
MaxOffset == 12
WrapValues == {Norm(n, 2) : n \in (-2 * MaxOffset)..(2 * MaxOffset)}
WrapPeriods == {R(0), R(3), R(4), <<5, 2>>, R(10)}

WrapInit ==
    /\ wrapValue \in WrapValues
    /\ wrapPeriod \in WrapPeriods
    /\ wrapResult = R(0) /\ wrapCalled = FALSE

CallWrapSigned ==
    /\ ~wrapCalled
    /\ wrapResult' = wrapSigned(wrapValue, wrapPeriod)
    /\ wrapCalled' = TRUE
    /\ UNCHANGED <<wrapValue, wrapPeriod>>
    /\ UNCHANGED nonWrapVars

WrapNext == CallWrapSigned

WrapSpecInit == CropInit /\ MapIdle /\ viewSteps = 0 /\ BatchIdle /\ WmIdle /\ WrapInit /\ MsIdle /\ ExportIdle /\ DsIdle /\ TileIdle /\ OvIdle /\ PtrIdle /\ RotIdle /\ CmpIdle /\ PollIdle /\ LoadIdle /\ RzIdle /\ UiIdle /\ ZipIdle

SpecWrap == WrapSpecInit /\ [][WrapNext]_vars

\* C4: for every value v and every period > 0, wrapSigned(v, period) is
\* strictly greater than -period/2 and at most period/2.
C4_WrapBound ==
    wrapCalled /\ RLt(R(0), wrapPeriod)
        => /\ RLt(RNeg(RHalf(wrapPeriod)), wrapResult)
           /\ RLe(wrapResult, RHalf(wrapPeriod))

(***************************************************************************)
(* Specification of the viewer's zoom, pan and rotation (CanvasImageViewer) *)
(* showing one image                                                       *)
(***************************************************************************)
MaxViewSteps == 2

\* Zoom values the toolbar and the wheel reach with the pan still at zero:
\* 1 after load; 10 after 13 zoom-in presses; 1/10 after 13 zoom-out
\* presses; 3087/320 from 10 by one zoom-out press and three wheel-ups at
\* the box centre; 21/200 from 1/10 by one wheel-up at the box centre.
ZoomStarts == {R(1), R(10), <<1, 10>>, <<3087, 320>>, <<21, 200>>}

\* cursor positions of wheel events, in canvas coordinates
WheelPoints == {[x |-> 70, y |-> 70], [x |-> 90, y |-> 60], [x |-> 66, y |-> 73]}

\* a wheel step that zooms about the box centre and leaves the pan alone
handleWheelCentred(mouseX, mouseY, deltaY, imageWidth, imageHeight, r, currentZoom, currentPan) ==
    [zoom |-> RMax(<<1, 10>>, RMin(R(10),
                IF deltaY < 0 THEN RMul(currentZoom, <<21, 20>>)
                ELSE RDiv(currentZoom, <<21, 20>>))),
     pan |-> currentPan]

\* handleWheel: the zoom and pan it sets
handleWheel(mouseX, mouseY, deltaY, imageWidth, imageHeight, r, currentZoom, currentPan) ==
    LET effectiveW == IF isQuarterTurn(r) THEN imageHeight ELSE imageWidth
        effectiveH == IF isQuarterTurn(r) THEN imageWidth ELSE imageHeight
        base == fitContainWithPadding(effectiveW, effectiveH, ContainerWidth, ContainerHeight)
        boxW == RMul(base.w, currentZoom)
        boxH == RMul(base.h, currentZoom)
        imgX == RAdd(RAdd(base.x, RHalf(RSub(base.w, boxW))), currentPan.x)
        imgY == RAdd(RAdd(base.y, RHalf(RSub(base.h, boxH))), currentPan.y)
        relativeX == RDiv(RSub(R(mouseX), imgX), boxW)
        relativeY == RDiv(RSub(R(mouseY), imgY), boxH)
        step == <<21, 20>>
        nextZoom == IF deltaY < 0 THEN RMul(currentZoom, step) ELSE RDiv(currentZoom, step)
        newZoom == RMax(<<1, 10>>, RMin(R(10), nextZoom))
        newBoxW == RMul(base.w, newZoom)
        newBoxH == RMul(base.h, newZoom)
        newImgX == RAdd(base.x, RHalf(RSub(base.w, newBoxW)))
        newImgY == RAdd(base.y, RHalf(RSub(base.h, newBoxH)))
    IN  [zoom |-> newZoom,
         pan |-> [x |-> RSub(RSub(R(mouseX), newImgX), RMul(relativeX, newBoxW)),
                  y |-> RSub(RSub(R(mouseY), newImgY), RMul(relativeY, newBoxH))]]

\* a wheel event at p and the redraw it causes
Wheel(p, deltaY) ==
    LET info == ActiveInfo
        w == handleWheel(p.x, p.y, deltaY, info.width, info.height,
                         rotationRef, zoomRef, panRef)
    IN  /\ imageRef # ""
        /\ viewSteps < MaxViewSteps
        /\ viewSteps' = viewSteps + 1
        /\ zoomRef' = w.zoom /\ panRef' = w.pan
        /\ viewStateRef' = Redraw(info, rotationRef, w.zoom, w.pan)
        /\ UNCHANGED <<imageRef, rotationRef>>
        /\ UNCHANGED nonViewerVars

\* api.zoomIn and api.zoomOut
ZoomButton(next) ==
    /\ imageRef # ""
    /\ viewSteps < MaxViewSteps
    /\ viewSteps' = viewSteps + 1
    /\ zoomRef' = next
    /\ viewStateRef' = Redraw(ActiveInfo, rotationRef, next, panRef)
    /\ UNCHANGED <<imageRef, panRef, rotationRef>>
    /\ UNCHANGED nonViewerVars

\* a zoom-in press without the upper limit
zoomInUnlimited == ZoomButton(RMul(zoomRef, <<6, 5>>))

zoomIn == ZoomButton(RMin(R(10), RMul(zoomRef, <<6, 5>>)))
zoomOut == ZoomButton(RMax(<<1, 10>>, RDiv(zoomRef, <<6, 5>>)))

\* api.fit
fit ==
    /\ imageRef # ""
    /\ zoomRef' = R(1) /\ panRef' = ZeroPoint
    /\ viewStateRef' = Redraw(ActiveInfo, rotationRef, R(1), ZeroPoint)
    /\ UNCHANGED <<imageRef, rotationRef>>
    /\ UNCHANGED <<nonViewerVars, viewSteps>>

\* api.reset
reset ==
    /\ imageRef # ""
    /\ zoomRef' = R(1) /\ panRef' = ZeroPoint /\ rotationRef' = 0
    /\ viewStateRef' = Redraw(ActiveInfo, 0, R(1), ZeroPoint)
    /\ UNCHANGED imageRef
    /\ UNCHANGED <<nonViewerVars, viewSteps>>

\* screen points of the mouse and touch events of a pan drag
PanPoints == {[x |-> 0, y |-> 0], [x |-> 140, y |-> 140]}

\* handleMouseDown with the left button, at p
handleMouseDown(p) ==
    /\ ~isDragging     \* the button is up
    /\ isDragging' = TRUE
    /\ dragStart' = [x |-> R(p.x), y |-> R(p.y)]
    /\ panStart' = panRef
    /\ UNCHANGED nonPanDragVars

\* handleTouchStart with n touches, the first at p
handleTouchStart(n, p) ==
    /\ ~isDragging     \* no finger is down
    /\ IF n = 1
       THEN /\ isDragging' = TRUE
            /\ dragStart' = [x |-> R(p.x), y |-> R(p.y)]
            /\ panStart' = panRef
       ELSE UNCHANGED panDragVars
    /\ UNCHANGED nonPanDragVars

\* the pan a move to p sets while dragging, and the redraw it causes
PanTo(p) ==
    /\ isDragging
    /\ viewSteps < MaxViewSteps
    /\ viewSteps' = viewSteps + 1
    /\ \E newPan \in {[x |-> RAdd(panStart.x, RSub(R(p.x), dragStart.x)),
                        y |-> RAdd(panStart.y, RSub(R(p.y), dragStart.y))]} :
          /\ panRef' = newPan
          /\ viewStateRef' = IF imageRef = "" THEN viewStateRef
                             ELSE Redraw(ActiveInfo, rotationRef, zoomRef, newPan)
    /\ UNCHANGED <<imageRef, zoomRef, rotationRef>>
    /\ UNCHANGED nonViewerVars

\* handleMouseMove of the mouse pan effect
handleMouseMove(p) == PanTo(p)

\* handleTouchMove of the touch pan effect, with n touches, the first at p
handleTouchMove(n, p) == n = 1 /\ PanTo(p)

\* handleMouseUp and handleTouchEnd
handleMouseUp ==
    /\ isDragging
    /\ isDragging' = FALSE
    /\ UNCHANGED <<dragStart, panStart>>
    /\ UNCHANGED nonPanDragVars

\* one image added; either not yet decoded, or decoded and drawn, zoomed by
\* the toolbar and rotated
ViewInit ==
    /\ \E id \in ImageIds :
          /\ CropStateIs(CropSettle([CropInitState EXCEPT !.items = <<id>>,
                                                          !.activeId = id]))
          /\ usedIds = {id}
          /\ \/ /\ imageRef = id
                /\ zoomRef \in ZoomStarts
                /\ rotationRef \in Rotations
                /\ viewStateRef = Redraw(ActiveInfo, rotationRef, zoomRef, ZeroPoint)
             \/ /\ imageRef = ""
                /\ zoomRef = R(1)
                /\ rotationRef = 0
                /\ viewStateRef = NoView
    /\ panRef = ZeroPoint
    /\ PanIdle
    /\ OverlayInit
    /\ viewSteps = 0

ViewNext ==
    \/ \E p \in WheelPoints, deltaY \in {-1, 1} : Wheel(p, deltaY)
    \/ zoomIn
    \/ zoomOut
    \/ \E d \in {90, 270} : Rotate(d) /\ UNCHANGED nonCropVars
    \/ fit
    \/ reset
    \/ ViewerImageLoaded /\ UNCHANGED nonCropVars
    \/ \E p \in PanPoints : handleMouseDown(p)
    \/ \E p \in PanPoints, n \in {1, 2} : handleTouchStart(n, p)
    \/ \E p \in PanPoints : handleMouseMove(p)
    \/ \E p \in PanPoints, n \in {1, 2} : handleTouchMove(n, p)
    \/ handleMouseUp

ViewSpecInit == ViewInit /\ MapIdle /\ WrapIdle /\ BatchIdle /\ WmIdle /\ MsIdle /\ ExportIdle /\ DsIdle /\ TileIdle /\ OvIdle /\ PtrIdle /\ RotIdle /\ CmpIdle /\ PollIdle /\ LoadIdle /\ RzIdle /\ UiIdle /\ ZipIdle

SpecView == ViewSpecInit /\ [][ViewNext]_vars

\* the point of the drawn image under screen point p, as fractions of the box
ImagePointAt(p, v) ==
    [x |-> RDiv(RSub(R(p.x), v.boxX), v.boxW),
     y |-> RDiv(RSub(R(p.y), v.boxY), v.boxH)]

\* p is over the drawn image
OverImage(p, v) ==
    /\ RLe(v.boxX, R(p.x)) /\ RLe(R(p.x), RAdd(v.boxX, v.boxW))
    /\ RLe(v.boxY, R(p.y)) /\ RLe(R(p.y), RAdd(v.boxY, v.boxH))

\* C5: for a cursor position P over the image, after one wheel-zoom step
\* (either direction, also when the new zoom is clamped at 0.1 or 10) the
\* image point that was under P before the step is again drawn at P.
C5_ZoomAnchor ==
    [][\A p \in WheelPoints :
          (OverImage(p, viewStateRef) /\ \E deltaY \in {-1, 1} : Wheel(p, deltaY))
              => ImagePointAt(p, viewStateRef') = ImagePointAt(p, viewStateRef)]_vars

\* C5 witness: a wheel-up from zoom 3087/320 was clamped at 10 and moved
\* the pan to keep the cursor's image point in place.
C5_Witness ==
    /\ viewSteps = 1 /\ zoomRef = R(10) /\ panRef # ZeroPoint
    /\ viewStateRef.rotation = 90

(***************************************************************************)
(* Specification of a batch export: buildAllExports of the crop, watermark *)
(* and mask pages, called by ImageToolLayout.handlePrimaryAction           *)
(***************************************************************************)
\* the sequences without repetition over S, of length lo..hi
DistinctSeqs(S, lo, hi) ==
    {q \in UNION {[1..n -> S] : n \in lo..hi} :
        \A i, j \in 1..Len(q) : i # j => q[i] # q[j]}

BatchTools == {"crop", "watermark", "mosaic"}

\* several images are listed; some of them cannot be exported (decoding
\* or canvas.toBlob fails)
BatchInit ==
    /\ batchTool \in BatchTools
    /\ batchItems \in DistinctSeqs(ImageIds, 2, 3)
    /\ batchFails \in SUBSET SeqToSet(batchItems)
    /\ batchPos = 0 /\ batchPhase = "next" /\ batchLog = <<>>
    /\ payloads = <<>> /\ pageError = FALSE
    /\ isProcessingOpen = FALSE /\ processingStatus = "processing"
    /\ downloadPayloads = NoPayloads

\* handlePrimaryAction(onPrimaryActionAll, true) up to the loop of
\* buildAllExports
StartBatch ==
    /\ Len(batchItems) > 1
    /\ ~isProcessingOpen           \* the dialog covers the page
    /\ isProcessingOpen' = TRUE
    /\ processingStatus' = "processing"
    /\ downloadPayloads' = NoPayloads
    /\ pageError' = FALSE
    /\ payloads' = <<>>
    /\ batchPos' = 1
    /\ batchPhase' = "next" /\ batchLog' = <<>>
    /\ UNCHANGED <<batchTool, batchItems, batchFails>>
    /\ UNCHANGED nonBatchVars

\* the loop takes its next item and calls the export of it
ExportStarts ==
    /\ isProcessingOpen /\ processingStatus = "processing"
    /\ batchPos \in 1..Len(batchItems)
    /\ batchPhase = "next"
    /\ batchPhase' = "exporting"
    /\ batchLog' = Append(batchLog, <<"start", batchItems[batchPos]>>)
    /\ UNCHANGED <<batchTool, batchItems, batchFails, batchPos, payloads, pageError,
                   isProcessingOpen, processingStatus, downloadPayloads>>
    /\ UNCHANGED nonBatchVars

\* an export that succeeds, with the push but without the timer after it
ExportOneNoYield ==
    /\ isProcessingOpen /\ processingStatus = "processing"
    /\ batchPos \in 1..Len(batchItems)
    /\ batchPhase = "exporting"
    /\ batchItems[batchPos] \notin batchFails
    /\ payloads' = Append(payloads, [id |-> batchItems[batchPos], tool |-> batchTool])
    /\ batchPos' = batchPos + 1
    /\ batchPhase' = "next"
    /\ batchLog' = Append(batchLog, <<"done", batchItems[batchPos]>>)
    /\ UNCHANGED <<batchTool, batchItems, batchFails, pageError,
                   isProcessingOpen, processingStatus, downloadPayloads>>
    /\ UNCHANGED nonBatchVars

\* the awaited export succeeds: its payload is pushed and the zero-delay
\* timer is set
ExportOne ==
    /\ isProcessingOpen /\ processingStatus = "processing"
    /\ batchPos \in 1..Len(batchItems)
    /\ batchPhase = "exporting"
    /\ batchItems[batchPos] \notin batchFails
    /\ payloads' = Append(payloads, [id |-> batchItems[batchPos], tool |-> batchTool])
    /\ batchPhase' = "yield"
    /\ batchLog' = Append(batchLog, <<"done", batchItems[batchPos]>>)
    /\ UNCHANGED <<batchTool, batchItems, batchFails, batchPos, pageError,
                   isProcessingOpen, processingStatus, downloadPayloads>>
    /\ UNCHANGED nonBatchVars

\* the timer fires: the loop goes on to the next item
YieldDone ==
    /\ isProcessingOpen /\ processingStatus = "processing"
    /\ batchPhase = "yield"
    /\ batchPos' = batchPos + 1
    /\ batchPhase' = "next"
    /\ batchLog' = Append(batchLog, <<"yield", batchItems[batchPos]>>)
    /\ UNCHANGED <<batchTool, batchItems, batchFails, payloads, pageError,
                   isProcessingOpen, processingStatus, downloadPayloads>>
    /\ UNCHANGED nonBatchVars

\* one iteration whose export throws: the catch around the loop sets the
\* page error and rethrows, handlePrimaryAction's catch sets the status
ExportThrows ==
    /\ isProcessingOpen /\ processingStatus = "processing"
    /\ batchPos \in 1..Len(batchItems)
    /\ batchPhase = "exporting"
    /\ batchItems[batchPos] \in batchFails
    /\ pageError' = TRUE
    /\ payloads' = <<>>
    /\ batchPos' = 0
    /\ batchPhase' = "next"
    /\ processingStatus' = "error"
    /\ UNCHANGED <<batchTool, batchItems, batchFails, batchLog, isProcessingOpen,
                   downloadPayloads>>
    /\ UNCHANGED nonBatchVars

\* the loop is over: buildAllExports returns payloads, handlePrimaryAction
\* keeps them for download
BatchReturns ==
    /\ isProcessingOpen /\ processingStatus = "processing"
    /\ batchPos = Len(batchItems) + 1
    /\ batchPhase = "next"
    /\ downloadPayloads' = [set |-> TRUE, list |-> payloads]
    /\ processingStatus' = "success"
    /\ payloads' = <<>>
    /\ batchPos' = 0
    /\ UNCHANGED <<batchTool, batchItems, batchFails, batchPhase, batchLog, pageError,
                   isProcessingOpen>>
    /\ UNCHANGED nonBatchVars

\* the dialog's button once the run is over (download or close): the
\* dialog closes and is reset
CloseProcessing ==
    /\ isProcessingOpen /\ processingStatus \in {"success", "error"}
    /\ isProcessingOpen' = FALSE
    /\ downloadPayloads' = NoPayloads
    /\ processingStatus' = "processing"
    /\ UNCHANGED <<batchTool, batchItems, batchFails, batchPos, batchPhase, batchLog,
                   payloads, pageError>>
    /\ UNCHANGED nonBatchVars

BatchNext ==
    \/ StartBatch
    \/ ExportStarts
    \/ ExportOne
    \/ YieldDone
    \/ ExportThrows
    \/ BatchReturns
    \/ CloseProcessing

BatchSpecInit == CropInit /\ MapIdle /\ WrapIdle /\ viewSteps = 0 /\ WmIdle /\ BatchInit /\ MsIdle /\ ExportIdle /\ DsIdle /\ TileIdle /\ OvIdle /\ PtrIdle /\ RotIdle /\ CmpIdle /\ PollIdle /\ LoadIdle /\ RzIdle /\ UiIdle /\ ZipIdle

SpecBatch == BatchSpecInit /\ [][BatchNext]_vars

\* the payloads of the images of the batch whose export succeeds, in order
RECURSIVE ExportablePayloads(_)
ExportablePayloads(q) ==
    IF q = <<>> THEN <<>>
    ELSE (IF q[1] \in batchFails THEN <<>> ELSE <<[id |-> q[1], tool |-> batchTool]>>)
         \o ExportablePayloads(Tail(q))

\* C6: in a multi-image batch export, if exporting one image fails, the
\* remaining images are still processed and the payloads of the images
\* that succeeded are returned to the caller as a usable partial result.
C6_PartialResult ==
    (/\ isProcessingOpen /\ processingStatus \in {"success", "error"}
     /\ Cardinality(batchFails) = 1)
        => downloadPayloads = [set |-> TRUE, list |-> ExportablePayloads(batchItems)]

(***************************************************************************)
(* Specification of the watermark page's per-image rules                   *)
(* (ImageWatermarkPage with useImageItems).  The settings that a rule      *)
(* copies unchanged are one value (a style), which also fixes the size of  *)
(* the stamp; positions and tile offsets are image pixels, a rule holds    *)
(* them as fractions of the image size.                                    *)
(***************************************************************************)
WmStyles == {"s0", "s1"}            \* "s0": the settings at construction
WmModes == {"single", "tile"}
WmMargin == 24
WmTileRows == 4
WmTileCols == 4
MaxWmEdits == 3

\* the watermarkRect memo: the measured size of the stamp
WmRectOf(style) ==
    IF style = "s1" THEN [w |-> 30, h |-> 16] ELSE [w |-> 20, h |-> 10]

\* clamp of the watermark page
wmClamp(value, min, max) == RMin(max, RMax(min, value))

\* the page state as one record
WmState ==
    [items |-> items, activeId |-> activeId, style |-> wmStyle, mode |-> wmMode,
     position |-> wmPosition, tileOffset |-> wmTileOffset,
     appliedRule |-> wmAppliedRule,
     perImageRuleRef |-> perImageRuleRef, lastActiveIdRef |-> wmLastActiveIdRef]

buildAppliedRuleFromState(w, baseInfo) ==
    LET px == IF w.position = NullPoint THEN R(0) ELSE w.position.x
        py == IF w.position = NullPoint THEN R(0) ELSE w.position.y
    IN  [style |-> w.style, positionMode |-> w.mode,
         singleOffsetX |-> IF baseInfo.width > 0 THEN RDiv(px, R(baseInfo.width)) ELSE R(0),
         singleOffsetY |-> IF baseInfo.height > 0 THEN RDiv(py, R(baseInfo.height)) ELSE R(0),
         tileOffsetX |-> IF baseInfo.width > 0
                         THEN RDiv(w.tileOffset.x, R(baseInfo.width)) ELSE R(0),
         tileOffsetY |-> IF baseInfo.height > 0
                         THEN RDiv(w.tileOffset.y, R(baseInfo.height)) ELSE R(0)]

\* applyRuleToState: the state updates it queues
applyRuleToState(w, rule, targetInfo) ==
    [w EXCEPT
        !.style = rule.style,
        !.mode = rule.positionMode,
        !.tileOffset = [x |-> RMul(rule.tileOffsetX, R(targetInfo.width)),
                        y |-> RMul(rule.tileOffsetY, R(targetInfo.height))],
        !.position = [x |-> RMul(rule.singleOffsetX, R(targetInfo.width)),
                      y |-> RMul(rule.singleOffsetY, R(targetInfo.height))]]

\* the active-image switch effect, deps [activeId, info, appliedRule], run
\* in the render of state w: the refs it writes and the updates it queues
WmSwitchEffect(w) ==
    LET active == ActiveOf(w.items, w.activeId)
        prevId == w.lastActiveIdRef
        saved == IF prevId # ""
                 THEN [w.perImageRuleRef EXCEPT
                          ![prevId] = buildAppliedRuleFromState(w, ImageInfo[prevId])]
                 ELSE w.perImageRuleRef
        cached == saved[w.activeId]
        ruleToApply == IF cached # NoWmRule THEN cached ELSE w.appliedRule
    IN  IF active = ""
        THEN [w EXCEPT !.lastActiveIdRef = "", !.position = NullPoint]
        ELSE IF w.activeId # "" /\ w.activeId # w.lastActiveIdRef
        THEN [(IF ruleToApply # NoWmRule
               THEN applyRuleToState(w, ruleToApply, ImageInfo[active])
               ELSE [w EXCEPT !.position = NullPoint])
              EXCEPT !.perImageRuleRef = saved, !.lastActiveIdRef = w.activeId]
        ELSE w

\* the position init/clamp effect, deps [info, margin, position,
\* positionMode, watermarkRect], run in the render of state w: the position
\* it hands to setPosition, NullPoint when it sets nothing
WmPositionEffect(w) ==
    LET active == ActiveOf(w.items, w.activeId)
        info == ImageInfo[active]
        wr == WmRectOf(w.style)
        nextX == wmClamp(w.position.x, R(0), R(IMax(0, info.width - wr.w)))
        nextY == wmClamp(w.position.y, R(0), R(IMax(0, info.height - wr.h)))
    IN  IF active = "" \/ w.mode = "tile" THEN NullPoint
        ELSE IF w.position = NullPoint
        THEN [x |-> R(IMax(WmMargin, info.width - wr.w - WmMargin)),
              y |-> R(IMax(WmMargin, info.height - wr.h - WmMargin))]
        ELSE IF nextX # w.position.x \/ nextY # w.position.y
        THEN [x |-> nextX, y |-> nextY]
        ELSE NullPoint

\* the effects of one render: both effects see the state of the render,
\* and the last setPosition queued is the one that counts
WmEffects(w) ==
    The({The({IF p = NullPoint THEN sw ELSE [sw EXCEPT !.position = p]
              : sw \in {WmSwitchEffect(w)}})
         : p \in {WmPositionEffect(w)}})

\* render and run effects until no state update is queued
RECURSIVE WmSettle(_)
WmSettle(w) ==
    The({IF n = w THEN w ELSE WmSettle(n) : n \in {WmEffects(w)}})

\* the page after a handler's updates w have been rendered and settled
WmCommit(w) ==
    \E d \in {WmSettle(w)} :
        /\ items' = d.items /\ activeId' = d.activeId
        /\ wmStyle' = d.style /\ wmMode' = d.mode
        /\ wmPosition' = d.position /\ wmTileOffset' = d.tileOffset
        /\ wmAppliedRule' = d.appliedRule
        /\ perImageRuleRef' = d.perImageRuleRef
        /\ wmLastActiveIdRef' = d.lastActiveIdRef

\* the processing dialog is modal: the page is used while it is closed
WmNothingExported == [id \in ImageIds |-> NoWmRule]
WmDialogClosed == wmExported = WmNothingExported

\* addFiles, at the moment the decoded files are appended
WmAddFiles(newIds) ==
    /\ WmDialogClosed
    /\ Len(newIds) > 0
    /\ Len(items) + Len(newIds) <= MaxItems
    /\ SeqToSet(newIds) \cap usedIds = {}
    /\ usedIds' = usedIds \cup SeqToSet(newIds)
    /\ WmCommit([WmState EXCEPT
            !.items = items \o newIds,
            !.activeId = IF activeId # "" THEN activeId ELSE newIds[1]])
    /\ UNCHANGED <<wmExported, wmEdits>>
    /\ UNCHANGED nonWmVars

\* images.onSelect
WmSelect(id) ==
    /\ WmDialogClosed
    /\ Len(items) > 1 /\ id \in SeqToSet(items)
    /\ id # activeId
    /\ WmCommit([WmState EXCEPT !.activeId = id])
    /\ UNCHANGED <<usedIds, wmExported>>
    /\ UNCHANGED wmEdits
    /\ UNCHANGED nonWmVars

\* images.onRemove: removeOne
WmRemove(id) ==
    LET n == removeOne(items, activeId, id)
    IN  /\ WmDialogClosed
        /\ Len(items) > 1 /\ id \in SeqToSet(items)
        /\ WmCommit([WmState EXCEPT !.items = n.items, !.activeId = n.activeId])
        /\ UNCHANGED <<usedIds, wmExported>>
        /\ UNCHANGED wmEdits
        /\ UNCHANGED nonWmVars

\* images.onApplyToAll
WmApplyToAll ==
    LET rule == buildAppliedRuleFromState(WmState, ImageInfo[ActiveOf(items, activeId)])
    IN  /\ WmDialogClosed
        /\ Len(items) > 1
        /\ WmCommit([WmState EXCEPT
              !.appliedRule = rule,
              !.perImageRuleRef =
                  [id \in ImageIds |->
                      IF id \in SeqToSet(items) THEN rule ELSE NoWmRule]])
        /\ UNCHANGED <<usedIds, wmExported>>
        /\ wmEdits < MaxWmEdits /\ wmEdits' = wmEdits + 1
        /\ UNCHANGED nonWmVars

\* the user changes a setting in the panel
WmEditStyle(v) ==
    /\ WmDialogClosed
    /\ ActiveOf(items, activeId) # ""
    /\ v # wmStyle
    /\ WmCommit([WmState EXCEPT !.style = v])
    /\ UNCHANGED <<usedIds, wmExported>>
    /\ wmEdits < MaxWmEdits /\ wmEdits' = wmEdits + 1
    /\ UNCHANGED nonWmVars

\* the single / tile radio buttons
WmSetMode(m) ==
    /\ WmDialogClosed
    /\ ActiveOf(items, activeId) # ""
    /\ m # wmMode
    /\ WmCommit([WmState EXCEPT !.mode = m])
    /\ UNCHANGED <<usedIds, wmExported>>
    /\ wmEdits < MaxWmEdits /\ wmEdits' = wmEdits + 1
    /\ UNCHANGED nonWmVars

\* pointer positions of a drag less the drag offset (image pixels)
WmDragTargets ==
    {[x |-> R(0), y |-> R(0)], [x |-> R(70), y |-> R(58)]}

\* handlePointerMove while dragging: raw is the pointer's image point less
\* the drag offset
handlePointerMove(w, raw) ==
    LET info == ImageInfo[ActiveOf(w.items, w.activeId)]
        wr == WmRectOf(w.style)
        rows == IMax(1, IMin(12, WmTileRows))
        cols == IMax(1, IMin(12, WmTileCols))
    IN  IF w.mode = "tile"
        THEN [w EXCEPT !.tileOffset =
                [x |-> wrapSigned(raw.x, <<info.width, cols>>),
                 y |-> wrapSigned(raw.y, <<info.height, rows>>)]]
        ELSE [w EXCEPT !.position =
                [x |-> wmClamp(raw.x, R(0), R(IMax(0, info.width - wr.w))),
                 y |-> wmClamp(raw.y, R(0), R(IMax(0, info.height - wr.h)))]]

\* the user drags the watermark
WmDrag(raw) ==
    /\ WmDialogClosed
    /\ ActiveOf(items, activeId) # ""
    /\ handlePointerMove(WmState, raw) # WmState
    /\ WmCommit(handlePointerMove(WmState, raw))
    /\ UNCHANGED <<usedIds, wmExported>>
    /\ wmEdits < MaxWmEdits /\ wmEdits' = wmEdits + 1
    /\ UNCHANGED nonWmVars

\* buildAllExports: the rule each image is rendered with
WmRuleForExport(id) ==
    LET activeRule == buildAppliedRuleFromState(WmState, ImageInfo[ActiveOf(items, activeId)])
        rulesById == [perImageRuleRef EXCEPT ![activeId] = activeRule]
    IN  IF wmAppliedRule # NoWmRule THEN wmAppliedRule
        ELSE IF rulesById[id] # NoWmRule THEN rulesById[id]
        ELSE activeRule

WmExportAll ==
    /\ WmDialogClosed
    /\ Len(items) > 1
    /\ wmExported' = [id \in ImageIds |->
                         IF id \in SeqToSet(items) THEN WmRuleForExport(id)
                         ELSE NoWmRule]
    /\ UNCHANGED <<listVars, wmStyle, wmMode, wmPosition, wmTileOffset, wmEdits,
                   wmAppliedRule, perImageRuleRef, wmLastActiveIdRef>>
    /\ UNCHANGED nonWmVars

\* the dialog's download or cancel button: the payloads are dropped
WmCloseDialog ==
    /\ ~WmDialogClosed
    /\ wmExported' = WmNothingExported
    /\ UNCHANGED <<listVars, wmStyle, wmMode, wmPosition, wmTileOffset, wmEdits,
                   wmAppliedRule, perImageRuleRef, wmLastActiveIdRef>>
    /\ UNCHANGED nonWmVars

WmNext ==
    \/ \E q \in DistinctSeqs(ListImages, 1, MaxItems) : WmAddFiles(q)
    \/ \E id \in ImageIds : WmSelect(id)
    \/ \E id \in ImageIds : WmRemove(id)
    \/ WmApplyToAll
    \/ \E v \in WmStyles : WmEditStyle(v)
    \/ \E m \in WmModes : WmSetMode(m)
    \/ \E raw \in WmDragTargets : WmDrag(raw)
    \/ WmExportAll
    \/ WmCloseDialog

WmSpecInit ==
    /\ CropInit /\ MapIdle /\ WrapIdle /\ viewSteps = 0 /\ BatchIdle /\ WmIdle /\ MsIdle /\ ExportIdle /\ DsIdle /\ TileIdle /\ OvIdle /\ PtrIdle /\ RotIdle /\ CmpIdle /\ PollIdle /\ LoadIdle /\ RzIdle /\ UiIdle /\ ZipIdle

SpecWatermark == WmSpecInit /\ [][WmNext]_vars

\* image id has a rule of its own or a broadcast rule
WmHasRule(id) == perImageRuleRef[id] # NoWmRule \/ wmAppliedRule # NoWmRule

\* the rule the stated order gives such an image: its own cache entry,
\* else the broadcast rule
WmResolve(id) ==
    IF perImageRuleRef[id] # NoWmRule THEN perImageRuleRef[id] ELSE wmAppliedRule

\* C7: wherever the tool decides which rule applies to an image X (batch
\* export, activation of X), the choice is X's own cached per-image entry
\* if one exists, otherwise the broadcast "applied to all" rule if one
\* exists, otherwise the built-in default.  Stated for the watermark page
\* and the images that have a cached entry or a broadcast rule: the batch
\* export renders every image other than the one being edited with the
\* rule this order gives, and selecting an image shows that rule's settings
\* (the position shown after a switch is the subject of C12).
C7_RuleOrder ==
    [][/\ WmExportAll =>
            \A id \in SeqToSet(items) \ {activeId} :
                WmHasRule(id) => wmExported'[id] = WmResolve(id)
       /\ \A id \in ImageIds :
            (WmSelect(id) /\ WmHasRule(id)) =>
                /\ wmStyle' = WmResolve(id).style
                /\ wmMode' = WmResolve(id).positionMode
      ]_vars

(***************************************************************************)
(* Specification of the crop page with several images: the image list,     *)
(* the ratio select and "apply to all" (the viewer stays unloaded)         *)
(***************************************************************************)

CropListNext ==
    \/ \E q \in DistinctSeqs(ListImages, 1, MaxItems) : AddFiles(q) /\ UNCHANGED nonCropVars
    \/ \E id \in ImageIds : Select(id) /\ UNCHANGED nonCropVars
    \/ \E id \in ImageIds : CropRemove(id) /\ UNCHANGED nonCropVars
    \/ CropApplyToAll /\ UNCHANGED nonCropVars
    \/ CropReselect /\ UNCHANGED nonCropVars
    \/ \E v \in ModeValues : SetMode(v) /\ UNCHANGED nonCropVars

SpecCropList == CropSpecInit /\ [][CropListNext]_vars

\* what the stated order gives image id: its cache entry, else the applied
\* rule expanded against it, else a fresh centred default
CropExpected(id) ==
    LET info == ImageInfo[id]
        cached == perImageStateRef[id]
    IN  IF cached.modeValue # ""
        THEN [modeValue |-> cached.modeValue,
              rect |-> clampRect(RatRect(cached.rect), info.width, info.height)]
        ELSE IF appliedRule.modeValue # ""
        THEN LET st == buildStateFromRule(appliedRule, info)
             IN  [modeValue |-> st.modeValue, rect |-> st.rect]
        ELSE [modeValue |-> "free", rect |-> initRect(info.width, info.height)]

\* C8: in the crop tool, once the updates caused by a switch of the active
\* image have settled, the crop rect and the crop mode are those cached for
\* the newly active image if it has a cache entry (whatever mode was shown
\* before), otherwise the applied-to-all rule expanded against that image,
\* otherwise a fresh centred default.
C8_SwitchRestores ==
    [][\A id \in ImageIds :
          (activeId # "" /\ activeId # id /\ activeId' = id) =>
              /\ modeValue' = CropExpected(id).modeValue
              /\ rect' = CropExpected(id).rect
      ]_vars

\* C9: after an image is removed from the list, no per-image cache holds an
\* entry for its id, whether or not it was the active image.  Stated for the
\* crop page's cache of rects.
C9_RemovePurges ==
    [][\A id \in ImageIds : CropRemove(id) => perImageStateRef'[id] = NoState]_vars

(***************************************************************************)
(* Mosaic page (ImageMosaicPage): the mask canvas, the per-image cache and *)
(* the asynchronous image load.  A mask is represented by the image whose  *)
(* strokes it holds.                                                       *)
(***************************************************************************)
MsState ==
    [items |-> items, activeId |-> activeId, maskCanvasRef |-> maskCanvasRef,
     maskDirty |-> maskDirty, lastLoadedIdRef |-> lastLoadedIdRef,
     perImageStateRef |-> msPerImageStateRef, appliedRule |-> msAppliedRule,
     loading |-> msLoading, settings |-> msSettings]

\* saveCurrentState(id): the entry holds the mask canvas's pixels when the
\* canvas exists and is dirty
saveCurrentState(m, id) ==
    IF id = "" THEN m
    ELSE [m EXCEPT !.perImageStateRef[id] =
            [has |-> TRUE, settings |-> m.settings,
             maskData |-> IF m.maskCanvasRef # "none" /\ m.maskDirty
                          THEN m.maskCanvasRef ELSE "null"]]

\* the settings-save effect, deps [activeId, effectType, strength,
\* blurStrength, brushSize, mode]: stores the panel under the active id and
\* keeps the mask of the entry it rewrites
MsSettingsEffect(m) ==
    IF <<m.activeId, m.settings>> # <<activeId, msSettings>> /\ m.activeId # ""
    THEN [m EXCEPT !.perImageStateRef[m.activeId].has = TRUE,
                   !.perImageStateRef[m.activeId].settings = m.settings]
    ELSE m

\* the load effect, deps [activeId, info.url, rebuildEffectCanvas,
\* drawOverlay, t, appliedRule]; drawOverlay changes with maskDirty.  A
\* re-run cancels the load in flight.
MsLoadEffectRuns(m) ==
    <<m.activeId, ActiveOf(m.items, m.activeId), m.maskDirty, m.appliedRule>>
        # <<activeId, ActiveOf(items, activeId), maskDirty, msAppliedRule>>

MsLoadEffect(m) ==
    IF ~MsLoadEffectRuns(m) THEN m
    ELSE IF ActiveOf(m.items, m.activeId) = ""
    THEN [m EXCEPT !.lastLoadedIdRef = "", !.maskCanvasRef = "none",
                   !.maskDirty = FALSE, !.loading = FALSE]
    ELSE IF m.activeId # "" /\ m.activeId = m.lastLoadedIdRef
    THEN [m EXCEPT !.loading = FALSE]
    ELSE [m EXCEPT !.loading = TRUE]

\* the page after a handler's updates m have been rendered
MsCommit(m) ==
    LET d == MsLoadEffect(MsSettingsEffect(m))
    IN  /\ items' = d.items /\ activeId' = d.activeId
        /\ maskCanvasRef' = d.maskCanvasRef /\ maskDirty' = d.maskDirty
        /\ lastLoadedIdRef' = d.lastLoadedIdRef
        /\ msPerImageStateRef' = d.perImageStateRef
        /\ msAppliedRule' = d.appliedRule /\ msLoading' = d.loading
        /\ msSettings' = d.settings
        /\ UNCHANGED nonMsVars

MsAddFiles(newIds) ==
    /\ Len(newIds) > 0
    /\ Len(items) + Len(newIds) <= MaxItems
    /\ SeqToSet(newIds) \cap usedIds = {}
    /\ usedIds' = usedIds \cup SeqToSet(newIds)
    /\ MsCommit([MsState EXCEPT
          !.items = items \o newIds,
          !.activeId = IF activeId # "" THEN activeId ELSE newIds[1]])

\* images.onSelect of the mosaic page
MsSelect(id) ==
    /\ Len(items) > 1 /\ id \in SeqToSet(items)
    /\ id # activeId
    /\ MsCommit([saveCurrentState(MsState, activeId) EXCEPT !.activeId = id])
    /\ UNCHANGED usedIds

\* images.onRemove of the mosaic page
MsRemove(id) ==
    LET n == removeOne(items, activeId, id)
    IN  /\ Len(items) > 1 /\ id \in SeqToSet(items)
        /\ MsCommit([MsState EXCEPT
              !.perImageStateRef[id] = NoEntry,
              !.items = n.items, !.activeId = n.activeId])
        /\ UNCHANGED usedIds

\* images.onApplyToAll of the mosaic page: a dirty mask is shared with every
\* listed image, which makes it that image's mask
MsApplyToAll ==
    LET m == saveCurrentState(MsState, activeId)
        shared == m.perImageStateRef[activeId].maskData
    IN  /\ Len(items) > 1
        /\ MsCommit([m EXCEPT
              !.appliedRule = msSettings,
              !.perImageStateRef =
                  [id \in ImageIds |->
                      IF id \in SeqToSet(items)
                      THEN [has |-> TRUE, settings |-> msSettings,
                            maskData |-> IF shared # "null" THEN id
                                         ELSE m.perImageStateRef[id].maskData]
                      ELSE m.perImageStateRef[id]]])
        /\ UNCHANGED usedIds

\* onReselect of the mosaic page (offered for a single image): clearAll
\* and resetWorkState
MsReselect ==
    /\ Len(items) = 1
    /\ MsCommit([MsState EXCEPT
          !.items = <<>>, !.activeId = "",
          !.maskCanvasRef = "none", !.maskDirty = FALSE])
    /\ UNCHANGED usedIds

\* a brush stroke or a rect fill on the mask canvas
MsPaint ==
    /\ ActiveOf(items, activeId) # ""
    /\ maskCanvasRef # "none"
    /\ MsCommit([MsState EXCEPT !.maskDirty = TRUE])
    /\ UNCHANGED usedIds

\* clearMask: the canvas is blank again
MsClearMask ==
    /\ ActiveOf(items, activeId) # ""
    /\ maskCanvasRef # "none"
    /\ MsCommit([MsState EXCEPT
          !.maskCanvasRef = lastLoadedIdRef, !.maskDirty = FALSE])
    /\ UNCHANGED usedIds

\* loadImage resolves: a new mask canvas is made for the active image and
\* filled from its cache entry; the panel is set from the entry, else from
\* the "apply to all" rule
MsLoadCompletes ==
    LET cached == msPerImageStateRef[activeId]
    IN  /\ msLoading
        /\ MsCommit([MsState EXCEPT
              !.maskCanvasRef = IF cached.maskData # "null" THEN cached.maskData
                                ELSE activeId,
              !.maskDirty = cached.maskData # "null",
              !.settings = IF cached.has THEN cached.settings
                           ELSE IF msAppliedRule # "" THEN msAppliedRule ELSE @,
              !.lastLoadedIdRef = activeId,
              !.loading = FALSE])
        /\ UNCHANGED usedIds

\* the panel's controls: setEffectType, setStrength, setBlurStrength,
\* setBrushSize, setMode
MsSetSettings(p) ==
    /\ ActiveOf(items, activeId) # ""
    /\ p # msSettings
    /\ MsCommit([MsState EXCEPT !.settings = p])
    /\ UNCHANGED usedIds

\* loadImage rejects: resetWorkState
MsLoadFails ==
    /\ msLoading
    /\ MsCommit([MsState EXCEPT
          !.maskCanvasRef = "none", !.maskDirty = FALSE, !.loading = FALSE])
    /\ UNCHANGED usedIds

\* onExport / buildAllExports of the mosaic page: the mask is saved under
\* the active id, then every image is exported from its cache entry
MsExportAll ==
    /\ Len(items) > 0
    /\ MsCommit(saveCurrentState(MsState, activeId))
    /\ UNCHANGED usedIds

MsNext ==
    \/ \E q \in DistinctSeqs(ListImages, 1, MaxItems) : MsAddFiles(q)
    \/ \E id \in ImageIds : MsSelect(id)
    \/ \E id \in ImageIds : MsRemove(id)
    \/ MsApplyToAll
    \/ MsReselect
    \/ MsPaint
    \/ MsClearMask
    \/ MsLoadCompletes
    \/ MsLoadFails
    \/ MsExportAll
    \/ \E p \in MsSettingsValues : MsSetSettings(p)

MsSpecInit ==
    /\ CropInit /\ MapIdle /\ WrapIdle /\ viewSteps = 0 /\ BatchIdle /\ WmIdle
    /\ MsIdle /\ ExportIdle /\ DsIdle /\ TileIdle /\ OvIdle /\ PtrIdle /\ RotIdle /\ CmpIdle /\ PollIdle /\ LoadIdle /\ RzIdle /\ UiIdle /\ ZipIdle

SpecMosaic == MsSpecInit /\ [][MsNext]_vars

\* C10: the mask cache entry stored under image id X only ever holds a mask
\* that was painted while X was the loaded image or that "apply to all"
\* broadcast to X, in every interleaving of selection, asynchronous loading
\* and export.
C10_MaskKeyedById ==
    \A id \in ImageIds : msPerImageStateRef[id].maskData \in {"null", id}

\* C11: the effect parameters cached for an image in the mask tool are those
\* that were active when the image was last edited: selecting an image leaves
\* the cached parameters of every image other than the one being left as they
\* are, and when a load completes for an image with a cache entry the panel
\* shows that entry's parameters.
C11_SettingsKept ==
    [][/\ \A id \in ImageIds : MsSelect(id) =>
              \A j \in ImageIds \ {activeId} :
                  msPerImageStateRef[j].has =>
                      msPerImageStateRef'[j].settings = msPerImageStateRef[j].settings
       /\ (MsLoadCompletes /\ msPerImageStateRef[activeId].has) =>
              msSettings' = msPerImageStateRef[activeId].settings
      ]_vars

\* the rule of the panel after a step, as fractions of image id
WmRuleShown(id) ==
    buildAppliedRuleFromState(
        [style |-> wmStyle', mode |-> wmMode', position |-> wmPosition',
         tileOffset |-> wmTileOffset'], ImageInfo[id])

\* C12: in the watermark tool, when the user switches from image A to image
\* B and later back to A, without "apply to all" in between, the rule
\* restored for A (mode, single-mode position, tile offset, style) equals the
\* rule A had when the user left it, whatever the sizes of A and B: leaving
\* an image stores its rule of that moment under its id, and selecting an
\* image that has a stored rule shows that rule.
C12_SwitchBack ==
    [][\A id \in ImageIds :
          (WmSelect(id) /\ wmAppliedRule = NoWmRule) =>
              /\ perImageRuleRef'[activeId] =
                    buildAppliedRuleFromState(WmState, ImageInfo[activeId])
              /\ perImageRuleRef[id] # NoWmRule => WmRuleShown(id) = perImageRuleRef[id]
      ]_vars

\* C13: in circular crop mode the crop rect always has width equal to
\* height: after every drag step, and after every activation of an image
\* (also of an image of another size or aspect ratio, from an "applied to
\* all" rule).
C13_CircleSquare ==
    [][(/\ modeValue' = "circle"
        /\ \/ IsDragStep
           \/ (activeId' # activeId /\ ActiveOf(items', activeId') # ""))
          => rect'.w = rect'.h]_vars

\* the corner (edge) of effective-space rect r opposite to the handle is
\* where it is in rect s
OppositeKept(handle, s, r) ==
    /\ handle \in {"e", "ne", "se"} => r.x = s.x
    /\ handle \in {"w", "nw", "sw"} => RAdd(r.x, r.w) = RAdd(s.x, s.w)
    /\ handle \in {"s", "se", "sw"} => r.y = s.y
    /\ handle \in {"n", "ne", "nw"} => RAdd(r.y, r.h) = RAdd(s.y, s.h)

\* C14: during a resize drag, after every drag step the corner opposite a
\* dragged corner handle, and the edge opposite a dragged edge handle, is at
\* its drag-start position, with and without ratio lock.
C14_OppositeFixed ==
    [][IsDragStep =>
          OppositeKept(dragRef.handle, dragRef.startEff,
                       rectOriginalToEffective(RatRect(rect'), view))]_vars

\* C15: after any sequence of zoomIn, zoomOut, wheel ticks, fit, reset and
\* image loads, the zoom factor lies in [0.1, 10].
C15_ZoomRange == RLe(<<1, 10>>, zoomRef) /\ RLe(zoomRef, R(10))

\* zoom-in and a wheel-up have been held at the upper limit, or zoom-out and
\* a wheel-down at the lower limit
C15_Witness ==
    /\ viewSteps = MaxViewSteps
    /\ zoomRef \in {R(10), <<1, 10>>}

\* the drawn image of view state v has a point inside the container
InView(v) ==
    /\ RLt(v.boxX, R(ContainerWidth)) /\ RLt(R(0), RAdd(v.boxX, v.boxW))
    /\ RLt(v.boxY, R(ContainerHeight)) /\ RLt(R(0), RAdd(v.boxY, v.boxH))

\* C16: the pan offset is always clamped: no sequence of mouse drags,
\* single-touch drags and wheel-zoom steps moves the pan offset outside a
\* bounded range; the widest such range is the one in which a part of the
\* drawn image is still inside the container.
C16_PanClamped == imageRef # "" => InView(viewStateRef)

(***************************************************************************)
(* Specification of the encoder quality of the crop and compress exports   *)
(***************************************************************************)
OutputTypes == {"image/png", "image/jpeg", "image/webp"}
\* the values of the dialog's quality slider (percent)
SliderQualities == 10 .. 100
\* extensions of the names of the images exported
FileExts == {"png", "webp", "jpg"}
\* compressionQuality of the compress page (it has no setter)
compressionQuality == 80

\* the dialog's saveSettings effect: format, quality and flag go to
\* localStorage (the settings are followed up to the first encoder call)
saveSettings(format, quality, optimizeForWeb) ==
    /\ ~encCalled
    /\ encSettings' =
          [format |-> format, quality |-> quality, optimizeForWeb |-> optimizeForWeb]
    /\ UNCHANGED <<encFormat, encQuality, encCalled>>
    /\ UNCHANGED nonExportVars

\* the crop page's exportOne: the format and quality it passes to canvasToBlob
\* for an image whose name ends in rawExt, cropped in a mode of the given kind
CropEncoderArgs(settings, rawExt, kind) ==
    LET sourceMime == IF rawExt = "png" THEN "image/png"
                      ELSE IF rawExt = "webp" THEN "image/webp" ELSE "image/jpeg"
        fixedFormat == IF kind = "circle" THEN "image/png" ELSE sourceMime
        optimizedQuality ==
            IF settings.optimizeForWeb
            THEN RMax(<<1, 10>>, RMin(R(1), RMul(R(settings.quality), <<17, 20>>)))
            ELSE R(settings.quality)
    IN  [format |-> fixedFormat,
         quality |-> IF fixedFormat = "image/png" THEN R(1) ELSE optimizedQuality]

\* the compress page's exportOne
CompressEncoderArgs(format) ==
    [format |-> format,
     quality |-> IF format = "image/png" THEN R(1)
                 ELSE RMax(<<1, 10>>, RMin(R(1), RDiv(R(compressionQuality), R(100))))]

\* canvasToBlob(canvas, type, quality) is called
canvasToBlob(args) ==
    /\ encFormat' = args.format /\ encQuality' = args.quality /\ encCalled' = TRUE
    /\ UNCHANGED encSettings
    /\ UNCHANGED nonExportVars

CropExportOne(rawExt, kind) == canvasToBlob(CropEncoderArgs(encSettings, rawExt, kind))
CompressExportOne(format) == canvasToBlob(CompressEncoderArgs(format))

ExportNext ==
    \/ \E f \in OutputTypes, q \in SliderQualities, o \in BOOLEAN : saveSettings(f, q, o)
    \/ \E e \in FileExts, k \in {"rect", "circle"} : CropExportOne(e, k)
    \/ \E f \in OutputTypes : CompressExportOne(f)

ExportSpecInit ==
    /\ CropInit /\ MapIdle /\ WrapIdle /\ viewSteps = 0 /\ BatchIdle /\ WmIdle
    /\ MsIdle /\ ExportIdle /\ DsIdle /\ TileIdle /\ OvIdle /\ PtrIdle /\ RotIdle /\ CmpIdle /\ PollIdle /\ LoadIdle /\ RzIdle /\ UiIdle /\ ZipIdle

SpecExport == ExportSpecInit /\ [][ExportNext]_vars

\* C17: whenever a tool encodes a lossy format (JPEG or WEBP), the quality
\* handed to the encoder lies in [0.1, 1.0], for every stored export quality
\* and for both values of the optimise-for-web flag.
C17_EncoderQuality ==
    (encCalled /\ encFormat \in {"image/jpeg", "image/webp"})
        => RLe(<<1, 10>>, encQuality) /\ RLe(encQuality, R(1))

(***************************************************************************)
(* Specification of the mosaic effect's downsampling (ImageMosaicPage)     *)
(***************************************************************************)
\* the values of the strength slider
Strengths == 10 .. 80

getBlockSize(strength) == IF MathRound(<<strength, 2>>) > 4 THEN MathRound(<<strength, 2>>) ELSE 4

\* the size of the small canvas the image is drawn to, for a block size
SmallSize(width, height, block) ==
    [width |-> IF MathRound(<<width, block>>) > 1 THEN MathRound(<<width, block>>) ELSE 1,
     height |-> IF MathRound(<<height, block>>) > 1 THEN MathRound(<<height, block>>) ELSE 1]

\* rebuildEffectCanvas with effectType "mosaic": the small canvas of the preview
rebuildEffectCanvas(info, strength) ==
    SmallSize(info.width, info.height, getBlockSize(strength))

\* exportOne with effectType "mosaic" and a painted mask: its small canvas
MsExportSmall(info, strength) ==
    SmallSize(info.width, info.height, getBlockSize(strength))

\* the strength slider is moved; the effect canvas is rebuilt
setStrength(v) ==
    /\ dsStrength' = v
    /\ dsPreview' = rebuildEffectCanvas(dsInfo, v)
    /\ UNCHANGED <<dsInfo, dsExport>>
    /\ UNCHANGED nonDsVars

\* the image is exported with the panel's strength
DsExportOne ==
    /\ dsExport' = MsExportSmall(dsInfo, dsStrength)
    /\ UNCHANGED <<dsInfo, dsStrength, dsPreview>>
    /\ UNCHANGED nonDsVars

\* an image is loaded and the preview built at the initial strength
DsInit ==
    /\ \E id \in ImageIds :
          dsInfo = [width |-> ImageInfo[id].width, height |-> ImageInfo[id].height]
    /\ dsStrength = 50
    /\ dsPreview = rebuildEffectCanvas(dsInfo, dsStrength)
    /\ dsExport = NoCanvas

DsNext ==
    \/ \E v \in Strengths : setStrength(v)
    \/ DsExportOne

DsSpecInit ==
    /\ CropInit /\ MapIdle /\ WrapIdle /\ viewSteps = 0 /\ BatchIdle /\ WmIdle
    /\ MsIdle /\ ExportIdle /\ DsInit /\ TileIdle /\ OvIdle /\ PtrIdle /\ RotIdle /\ CmpIdle /\ PollIdle /\ LoadIdle /\ RzIdle /\ UiIdle /\ ZipIdle

SpecDownsample == DsSpecInit /\ [][DsNext]_vars

\* ceil(W / block) x ceil(H / block)
CeilCells(info, block) ==
    [width |-> MathCeil(<<info.width, block>>), height |-> MathCeil(<<info.height, block>>)]

\* C18: the mosaic effect downsamples an image of W x H pixels to exactly
\* ceil(W / blockSize) x ceil(H / blockSize) cells, in the live preview and
\* in the export alike.
C18_CeilCells ==
    [][/\ dsPreview' = CeilCells(dsInfo', getBlockSize(dsStrength'))
       /\ DsExportOne => dsExport' = CeilCells(dsInfo, getBlockSize(dsStrength))
      ]_vars

(***************************************************************************)
(* Specification of the watermark page's tile pattern                      *)
(***************************************************************************)
\* the centre of the stamp of cell (rr, cc)
TileCentre(rr, cc, info, offset, stagger) ==
    The({[x |-> RAdd(RAdd(RMul(<<2 * cc + 1, 2>>, stepX), wrapSigned(offset.x, stepX)),
                     IF stagger /\ rr % 2 # 0 THEN RHalf(stepX) ELSE R(0)),
          y |-> RAdd(RMul(<<2 * rr + 1, 2>>, stepY), wrapSigned(offset.y, stepY))]
         : stepX \in {Norm(info.width, IMax(1, IMin(12, WmTileCols)))},
           stepY \in {Norm(info.height, IMax(1, IMin(12, WmTileRows)))}})

\* the tile loop of drawOverlay and of renderResultToBlobFor: the cells whose
\* stamp is drawn
TileCellsDrawn(info, wr, offset, stagger) ==
    {cell \in ((-1) .. IMax(1, IMin(12, WmTileRows)))
                \X ((-1) .. IMax(1, IMin(12, WmTileCols))) :
        \E c \in {TileCentre(cell[1], cell[2], info, offset, stagger)} :
            ~ \/ RLt(c.x, R(-wr.w)) \/ RLt(R(info.width + wr.w), c.x)
              \/ RLt(c.y, R(-wr.h)) \/ RLt(R(info.height + wr.h), c.y)}

\* the raw offsets (pointer minus grab point) of the pointer-moves of a drag
TileRaws == {[x |-> R(x), y |-> R(y)] : x \in {-15, -4, 0, 6, 10, 17}, y \in {-8, 0, 5, 9}}

\* an image is shown in tile mode
TileInit ==
    /\ tlImage \in ImageIds
    /\ tlStyle = "s0" /\ tileStagger = TRUE /\ tlOffset = ZeroPoint

\* the size control of the stamp
TlSetStyle(st) ==
    /\ tlStyle' = st
    /\ UNCHANGED <<tlImage, tileStagger, tlOffset>>
    /\ UNCHANGED nonTileVars

\* the stagger checkbox
setTileStagger(b) ==
    /\ tileStagger' = b
    /\ UNCHANGED <<tlImage, tlStyle, tlOffset>>
    /\ UNCHANGED nonTileVars

\* a pointer-move of a drag in tile mode
TlDrag(raw) ==
    /\ tlOffset' =
          handlePointerMove([items |-> <<tlImage>>, activeId |-> tlImage,
                             style |-> tlStyle, mode |-> "tile",
                             position |-> NullPoint, tileOffset |-> tlOffset],
                            raw).tileOffset
    /\ UNCHANGED <<tlImage, tlStyle, tileStagger>>
    /\ UNCHANGED nonTileVars

TileNext ==
    \/ \E st \in WmStyles : TlSetStyle(st)
    \/ \E b \in BOOLEAN : setTileStagger(b)
    \/ \E raw \in TileRaws : TlDrag(raw)

TileSpecInit ==
    /\ CropInit /\ MapIdle /\ WrapIdle /\ viewSteps = 0 /\ BatchIdle /\ WmIdle
    /\ MsIdle /\ ExportIdle /\ DsIdle /\ TileInit /\ OvIdle /\ PtrIdle /\ RotIdle /\ CmpIdle /\ PollIdle /\ LoadIdle /\ RzIdle /\ UiIdle /\ ZipIdle

SpecTile == TileSpecInit /\ [][TileNext]_vars

\* cells of the pattern up to Ring cells beyond the ones drawn
Ring == 3
PatternCells ==
    ((-Ring) .. (IMax(1, IMin(12, WmTileRows)) + Ring - 1))
        \X ((-Ring) .. (IMax(1, IMin(12, WmTileCols)) + Ring - 1))

\* the stamp of size wr centred at c has a point inside the image
StampOverlaps(c, wr, info) ==
    /\ RLt(R(0), RAdd(c.x, <<wr.w, 2>>)) /\ RLt(RSub(c.x, <<wr.w, 2>>), R(info.width))
    /\ RLt(R(0), RAdd(c.y, <<wr.h, 2>>)) /\ RLt(RSub(c.y, <<wr.h, 2>>), R(info.height))

\* C19: in tile mode, for every offset reachable by dragging, every stamp
\* size and both stagger settings, drawing only the cells with row index
\* -1..rows and column index -1..cols omits no stamp of the pattern that
\* overlaps the image.
C19_NoStampOmitted ==
    \A cell \in PatternCells :
        StampOverlaps(TileCentre(cell[1], cell[2], ImageInfo[tlImage], tlOffset, tileStagger),
                      WmRectOf(tlStyle), ImageInfo[tlImage])
            => cell \in TileCellsDrawn(ImageInfo[tlImage], WmRectOf(tlStyle), tlOffset,
                                       tileStagger)

\* the exports and yields of a loop over q that runs to its end
RECURSIVE SequentialLog(_)
SequentialLog(q) ==
    IF q = <<>> THEN <<>>
    ELSE <<<<"start", q[1]>>, <<"done", q[1]>>, <<"yield", q[1]>>>> \o SequentialLog(Tail(q))

\* C20: a multi-image batch export handles the images one at a time in list
\* order: the export of image i+1 does not start before the export of image
\* i has finished and one scheduler yield has happened, and the returned
\* payload list has exactly one entry per image, in list order.
C20_Sequential ==
    /\ Len(batchLog) <= 3 * Len(batchItems)
    /\ batchLog = SubSeq(SequentialLog(batchItems), 1, Len(batchLog))
    /\ downloadPayloads.set =>
          downloadPayloads.list =
              [i \in 1..Len(batchItems) |-> [id |-> batchItems[i], tool |-> batchTool]]

\* a batch of three images has run to its end and returned its payloads
C20_Witness ==
    /\ downloadPayloads.set /\ Len(downloadPayloads.list) = 3
    /\ batchLog = SequentialLog(batchItems)

(***************************************************************************)
(* Specification of the layout's export runs and processing overlay        *)
(* (handlePrimaryAction and ProcessingOverlay).  Every call of             *)
(* handlePrimaryAction is a run with the run id it took; a run awaits the  *)
(* page's export of OvBatchSize images, then the rest of the planned       *)
(* duration, then writes its result if its id is still the current one.    *)
(***************************************************************************)
OvBatchSize == 2
OvInputs == {"escape", "backdrop", "close", "button"}

\* the runs whose action or wait is pending
RunsInFlight == {r \in 1..MaxRunId : ovRuns[r].phase \in {"action", "wait"}}

\* handlePrimaryAction up to its await of the action
handlePrimaryAction ==
    /\ ~isProcessingOpen          \* the overlay covers the page's button
    /\ processingRunIdRef < MaxRunId
    /\ processingRunIdRef' = processingRunIdRef + 1
    /\ ovRuns' = [ovRuns EXCEPT ![processingRunIdRef + 1] =
                                  [phase |-> "action", exported |-> 0]]
    /\ downloadPayloads' = NoPayloads
    /\ processingStatus' = "processing"
    /\ isProcessingOpen' = TRUE
    /\ ovLastInput' = "none"
    /\ UNCHANGED <<downloadBusy, dismissedRuns>>
    /\ UNCHANGED <<batchLoopVars, nonLayoutVars>>

\* the action of run r exports its next image
OvExportStep(r) ==
    /\ ovRuns[r].phase = "action" /\ ovRuns[r].exported < OvBatchSize
    /\ ovRuns' = [ovRuns EXCEPT ![r].exported = @ + 1]
    /\ ovLastInput' = "none"
    /\ UNCHANGED <<processingRunIdRef, downloadBusy, dismissedRuns>>
    /\ UNCHANGED <<batchVars, nonLayoutVars>>

\* the action of run r returns its payloads; the run waits for the rest of
\* the planned duration
OvActionReturns(r) ==
    /\ ovRuns[r].phase = "action" /\ ovRuns[r].exported = OvBatchSize
    /\ ovRuns' = [ovRuns EXCEPT ![r].phase = "wait"]
    /\ ovLastInput' = "none"
    /\ UNCHANGED <<processingRunIdRef, downloadBusy, dismissedRuns>>
    /\ UNCHANGED <<batchVars, nonLayoutVars>>

\* the action of run r throws: the catch of handlePrimaryAction
OvActionThrows(r) ==
    /\ ovRuns[r].phase = "action" /\ ovRuns[r].exported < OvBatchSize
    /\ ovRuns' = [ovRuns EXCEPT ![r].phase = "over"]
    /\ processingStatus' = IF processingRunIdRef # r THEN processingStatus ELSE "error"
    /\ UNCHANGED <<isProcessingOpen, downloadPayloads>>
    /\ ovLastInput' = "none"
    /\ UNCHANGED <<processingRunIdRef, downloadBusy, dismissedRuns>>
    /\ UNCHANGED <<batchLoopVars, nonLayoutVars>>

\* the end of a run that writes its result whatever the current run id is
OvRunEndsUnchecked(r) ==
    /\ ovRuns[r].phase = "wait"
    /\ ovRuns' = [ovRuns EXCEPT ![r].phase = "over"]
    /\ downloadPayloads' = [set |-> TRUE, list |-> <<r>>]
    /\ processingStatus' = "success"
    /\ UNCHANGED isProcessingOpen
    /\ ovLastInput' = "none"
    /\ UNCHANGED <<processingRunIdRef, downloadBusy, dismissedRuns>>
    /\ UNCHANGED <<batchLoopVars, nonLayoutVars>>

\* the wait of run r is over: handlePrimaryAction after its awaits
OvRunEnds(r) ==
    /\ ovRuns[r].phase = "wait"
    /\ ovRuns' = [ovRuns EXCEPT ![r].phase = "over"]
    /\ IF processingRunIdRef # r
       THEN UNCHANGED <<downloadPayloads, processingStatus>>
       ELSE /\ downloadPayloads' = [set |-> TRUE, list |-> <<r>>]
            /\ processingStatus' = "success"
    /\ UNCHANGED isProcessingOpen
    /\ ovLastInput' = "none"
    /\ UNCHANGED <<processingRunIdRef, downloadBusy, dismissedRuns>>
    /\ UNCHANGED <<batchLoopVars, nonLayoutVars>>

\* the overlay's onCancel
onCancel ==
    /\ processingRunIdRef < MaxRunId
    /\ isProcessingOpen' = FALSE
    /\ processingRunIdRef' = processingRunIdRef + 1
    /\ downloadPayloads' = NoPayloads
    /\ processingStatus' = "processing"
    /\ dismissedRuns' =
          dismissedRuns \cup {[run |-> r, exported |-> ovRuns[r].exported] : r \in RunsInFlight}
    /\ UNCHANGED <<ovRuns, downloadBusy>>
    /\ UNCHANGED <<batchLoopVars, nonLayoutVars>>

\* an input that dismisses the overlay although the status is "processing"
OvInputCancels(kind) ==
    /\ isProcessingOpen /\ processingStatus = "processing"
    /\ ovLastInput' = kind
    /\ onCancel

\* Escape, a click on the backdrop, on the close button or on the button
\* of the action row, while the status is "processing"
OvInputWhileProcessing(kind) ==
    /\ isProcessingOpen /\ processingStatus = "processing"
    /\ ovLastInput' = kind
    /\ UNCHANGED <<processingRunIdRef, ovRuns, downloadBusy, dismissedRuns>>
    /\ UNCHANGED <<batchVars, nonLayoutVars>>

\* Escape, backdrop or close button once the status is not "processing",
\* and the action row's button (Close) in status "error"
OvDismiss(kind) ==
    /\ isProcessingOpen /\ processingStatus # "processing"
    /\ kind # "button" \/ processingStatus = "error"
    /\ ovLastInput' = kind
    /\ onCancel

\* the action row's button in status "success": onPrimaryAction up to its
\* first await (the archive or the downloads are being made)
OvDownloadClick ==
    /\ isProcessingOpen /\ processingStatus = "success"
    /\ downloadPayloads.set
    /\ ovLastInput' = "button"
    /\ downloadBusy' = TRUE
    /\ UNCHANGED <<processingRunIdRef, ovRuns, dismissedRuns>>
    /\ UNCHANGED <<batchVars, nonLayoutVars>>

\* onPrimaryAction after its awaits: the overlay is closed and reset
OvDownloadEnds ==
    /\ downloadBusy
    /\ downloadBusy' = FALSE
    /\ isProcessingOpen' = FALSE
    /\ downloadPayloads' = NoPayloads
    /\ processingStatus' = "processing"
    /\ ovLastInput' = "none"
    /\ UNCHANGED <<processingRunIdRef, ovRuns, dismissedRuns>>
    /\ UNCHANGED <<batchLoopVars, nonLayoutVars>>

OvNext ==
    \/ handlePrimaryAction
    \/ \E r \in 1..MaxRunId : OvExportStep(r)
    \/ \E r \in 1..MaxRunId : OvActionReturns(r)
    \/ \E r \in 1..MaxRunId : OvActionThrows(r)
    \/ \E r \in 1..MaxRunId : OvRunEnds(r)
    \/ \E k \in OvInputs : OvInputWhileProcessing(k)
    \/ \E k \in OvInputs : OvDismiss(k)
    \/ OvDownloadClick
    \/ OvDownloadEnds

OvSpecInit ==
    /\ CropInit /\ MapIdle /\ WrapIdle /\ viewSteps = 0 /\ BatchIdle /\ WmIdle
    /\ MsIdle /\ ExportIdle /\ DsIdle /\ TileIdle /\ OvIdle /\ PtrIdle /\ RotIdle /\ CmpIdle /\ PollIdle /\ LoadIdle /\ RzIdle /\ UiIdle /\ ZipIdle

SpecOverlay == OvSpecInit /\ [][OvNext]_vars

\* the step is a dismissal of the overlay
IsDismissal ==
    isProcessingOpen /\ ~isProcessingOpen' /\ processingRunIdRef' = processingRunIdRef + 1

\* C21: once a batch export has started, dismissing the progress overlay
\* never aborts it: the dismissal leaves the in-flight image and the queued
\* images of every run as they are, only hides the overlay and discards the
\* result, and a run that was in flight at a dismissal no longer changes the
\* overlay's status or payloads.
C21_DismissKeepsRun ==
    [][/\ IsDismissal =>
            /\ ovRuns' = ovRuns
            /\ downloadPayloads' = NoPayloads
            /\ \A r \in RunsInFlight : ENABLED (OvExportStep(r) \/ OvActionReturns(r)
                                                  \/ OvRunEnds(r))
       /\ \A d \in dismissedRuns :
            ovRuns'[d.run] # ovRuns[d.run] =>
                /\ ovRuns'[d.run].exported >= ovRuns[d.run].exported
                /\ UNCHANGED <<processingStatus, downloadPayloads, isProcessingOpen>>
      ]_vars

\* a run that had images left to export when the overlay was dismissed has
\* exported all its images and has ended
C21_Witness ==
    \E d \in dismissedRuns :
        /\ d.exported < OvBatchSize
        /\ ovRuns[d.run] = [phase |-> "over", exported |-> OvBatchSize]

(***************************************************************************)
(* The crop overlay's pointer handlers (SpecDrag)                          *)
(***************************************************************************)
\* everything but the pointer event a step of the page, the viewer or the
\* poll leaves alone
nonDragVars ==
    <<panDragVars, mapVars, wrapVars, viewSteps, batchVars, wmVars, msVars,
      exportVars, dsVars, tileVars, ovVars, rotVars, cmpVars, pollVars, loadVars, rzVars,
      uiVars, zipVars>>

\* onPointerDown of the rect body ("move") or of one of the eight handles
onPointerDown(handle) ==
    /\ startDrag(handle)
    /\ ptrEvent' = [kind |-> "down", target |-> handle]
    /\ UNCHANGED nonDragVars

\* onMove without its early return when no drag is in progress
onPointerMoveUnguarded(px, py, shiftKey) ==
    /\ ActiveOf(items, activeId) # "" /\ view # NoView
    /\ LET info == ImageInfo[ActiveOf(items, activeId)]
           mode == toModeFromState([modeValue |-> modeValue, customRatio |-> customRatio])
           pt == screenToEffectivePoint(R(px), R(py), view)
           drag == IF dragRef = NoDrag THEN [dragRef EXCEPT !.handle = "move"] ELSE dragRef
           next == onMove(drag, pt, shiftKey, getRatio(mode), view, info.width, info.height)
       IN  CropCommit([CropState EXCEPT
               !.rect = onRectChange(next, info.width, info.height)])
    /\ ptrEvent' = [kind |-> "move", target |-> ""]
    /\ UNCHANGED <<usedIds, viewerVars, overlayVars, nonDragVars>>

\* onPointerMove of the overlay's root: onMove returns at once when there is
\* no view or no drag
onPointerMove(px, py, shiftKey) ==
    /\ ActiveOf(items, activeId) # "" /\ view # NoView
    /\ IF dragRef = NoDrag
       THEN UNCHANGED <<cropVars, viewerVars, overlayVars>>
       ELSE PointerMove(px, py, shiftKey)
    /\ ptrEvent' = [kind |-> "move", target |-> ""]
    /\ UNCHANGED nonDragVars

\* onPointerUp and onPointerCancel of the overlay's root
onPointerEnd(kind) ==
    /\ ActiveOf(items, activeId) # "" /\ view # NoView
    /\ IF dragRef # NoDrag
       THEN endDrag
       ELSE UNCHANGED <<cropVars, viewerVars, overlayVars>>
    /\ ptrEvent' = [kind |-> kind, target |-> ""]
    /\ UNCHANGED nonDragVars

\* a step of the page, the viewer or the poll
DragOther ==
    \/ \E id \in SingleImages : Len(items) = 0 /\ AddFiles(<<id>>)
    \/ \E v \in ModeValues : SetMode(v)
    \/ ViewerImageLoaded
    \/ \E d \in {90, 270} : Rotate(d)
    \/ PollView

DragNext ==
    \/ DragOther /\ ptrEvent' = NoPointerEvent /\ UNCHANGED nonDragVars
    \/ \E h \in Handles : onPointerDown(h)
    \/ \E p \in PointerPoints, sh \in BOOLEAN : onPointerMove(p[1], p[2], sh)
    \/ \E k \in {"up", "cancel"} : onPointerEnd(k)

DragSpecInit == CropInit /\ MapIdle /\ WrapIdle /\ viewSteps = 0 /\ BatchIdle /\ WmIdle /\ MsIdle /\ ExportIdle /\ DsIdle /\ TileIdle /\ OvIdle /\ PtrIdle /\ RotIdle /\ CmpIdle /\ PollIdle /\ LoadIdle /\ RzIdle /\ UiIdle /\ ZipIdle

SpecDrag == DragSpecInit /\ [][DragNext]_vars

MaxPresses == 5
\* the images the rotated viewer is opened with
RotImages ==
    {[width |-> 800, height |-> 600], [width |-> 1000, height |-> 500],
     [width |-> 80, height |-> 60]}
\* the coordinates of the mapped point along a side of length n
RotCoords(n) == {R(0), R(10), R(n)}

\* the image has loaded at rotation 0 and has been drawn
RotInit ==
    /\ rtImage \in RotImages
    /\ \E x \in RotCoords(rtImage.width), y \in RotCoords(rtImage.height) :
          rtPoint = [x |-> x, y |-> y]
    /\ rtPresses = 0 /\ rtRotation = 0
    /\ rtView = draw(ContainerWidth, ContainerHeight, rtImage.width, rtImage.height,
                     0, R(1), ZeroPoint)
    /\ rtMapped = NullPoint

\* a press of the rotate-right button and the redraw it causes
RotPress ==
    /\ rtPresses < MaxPresses
    /\ rtPresses' = rtPresses + 1
    /\ rtRotation' = rotateRight90(rtRotation)
    /\ rtView' = draw(ContainerWidth, ContainerHeight, rtImage.width, rtImage.height,
                      rotateRight90(rtRotation), R(1), ZeroPoint)
    /\ rtMapped' = NullPoint
    /\ UNCHANGED <<rtImage, rtPoint>>
    /\ UNCHANGED nonRotVars

\* the overlay maps the point with the view state of the moment
RotMap ==
    /\ rtMapped = NullPoint
    /\ rtMapped' = pointOriginalToEffective(rtPoint.x, rtPoint.y, rtView.rotation,
                        rtView.imageWidth, rtView.imageHeight)
    /\ UNCHANGED <<rtImage, rtPoint, rtPresses, rtRotation, rtView>>
    /\ UNCHANGED nonRotVars

RotNext == RotPress \/ RotMap

RotSpecInit ==
    /\ CropInit /\ MapIdle /\ WrapIdle /\ viewSteps = 0 /\ BatchIdle /\ WmIdle
    /\ MsIdle /\ ExportIdle /\ DsIdle /\ TileIdle /\ OvIdle /\ PtrIdle /\ RotInit /\ CmpIdle /\ PollIdle /\ LoadIdle /\ RzIdle /\ UiIdle /\ ZipIdle

SpecRotate == RotSpecInit /\ [][RotNext]_vars

\* the point has been mapped at the rotation shown
RotMappedTo(x, y) == rtMapped = [x |-> R(x), y |-> R(y)]
RotIs(w, h, k, x, y) ==
    /\ rtImage = [width |-> w, height |-> h] /\ rtPresses = k
    /\ rtPoint = [x |-> R(x), y |-> R(y)] /\ rtMapped # NullPoint

\* C23: from rotation 0, k presses of rotateRight90 give rotation
\* (90 * k) mod 360; at 90 the effective size is H x W and (x, y) maps to
\* (H - y, x); at 180 the effective size is W x H and (x, y) maps to
\* (W - x, H - y); an 800 x 600 image after two presses maps (10, 10) to
\* (790, 590); a 1000 x 500 image after one press has effective size
\* 500 x 1000 and maps (0, 0) to (500, 0) and (1000, 500) to (0, 1000).
C23_RotateRight ==
    /\ rtRotation = (90 * rtPresses) % 360
    /\ rtView.rotation = rtRotation
    /\ rtRotation = 90 =>
          /\ rtView.effectiveWidth = rtImage.height
          /\ rtView.effectiveHeight = rtImage.width
          /\ rtMapped # NullPoint =>
                rtMapped = [x |-> RSub(R(rtImage.height), rtPoint.y), y |-> rtPoint.x]
    /\ rtRotation = 180 =>
          /\ rtView.effectiveWidth = rtImage.width
          /\ rtView.effectiveHeight = rtImage.height
          /\ rtMapped # NullPoint =>
                rtMapped = [x |-> RSub(R(rtImage.width), rtPoint.x),
                            y |-> RSub(R(rtImage.height), rtPoint.y)]
    /\ RotIs(800, 600, 2, 10, 10) => RotMappedTo(790, 590)
    /\ (rtImage = [width |-> 1000, height |-> 500] /\ rtPresses = 1) =>
          rtView.effectiveWidth = 500 /\ rtView.effectiveHeight = 1000
    /\ RotIs(1000, 500, 1, 0, 0) => RotMappedTo(500, 0)
    /\ RotIs(1000, 500, 1, 1000, 500) => RotMappedTo(0, 1000)

\* the far corner of the 1000 x 500 image has been mapped after one press
C23_Witness == RotIs(1000, 500, 1, 1000, 500) /\ rtView.rotation = 90

(***************************************************************************)
(* The compress page's job queue (SpecCompress)                            *)
(***************************************************************************)
\* the index of the first item from position i on that the loop of run()
\* does not skip (status neither "done" nor "processing"), 0 if there is none
FirstTodo(q, i, jobs) ==
    LET todo == {k \in i..Len(q) : jobs[q[k]] \notin {"done", "processing"}}
    IN  IF todo = {} THEN 0 ELSE CHOOSE k \in todo : \A m \in todo : k <= m

\* run() of run r over the list q from position i with the jobs as given,
\* up to its next await or its end: the first item it does not skip gets
\* status "processing" and a progress timer, and its compression starts
CmpRunFrom(r, q, i, jobs, timers, runs) ==
    \E k \in {FirstTodo(q, i, jobs)} :
        IF k = 0
        THEN /\ cmpRuns' = [runs EXCEPT ![r] = [items |-> q, pos |-> 0, phase |-> "over",
                                                cancelled |-> runs[r].cancelled]]
             /\ cmpJobs' = jobs /\ cmpTimers' = timers
        ELSE /\ cmpRuns' = [runs EXCEPT ![r] = [items |-> q, pos |-> k, phase |-> "await",
                                                cancelled |-> runs[r].cancelled]]
             /\ cmpJobs' = [jobs EXCEPT ![q[k]] = "processing"]
             /\ cmpTimers' = timers \cup {q[k]}

\* the render after the list has become q: ensureJobRecords, the cleanup of
\* the job-queue effect (cancelled = true) and the effect itself
CmpItemsChanged(q) ==
    LET ensured == [id \in ImageIds |->
                       IF id \in SeqToSet(q)
                       THEN IF cmpJobs[id] = "none" THEN "pending" ELSE cmpJobs[id]
                       ELSE "none"]
        cleaned == [r \in 1..MaxCmpRuns |->
                       IF r <= cmpRunId THEN [cmpRuns[r] EXCEPT !.cancelled = TRUE]
                       ELSE cmpRuns[r]]
    IN  /\ cmpItems' = q
        /\ IF Len(q) = 0
           THEN /\ cmpRunId' = cmpRunId /\ cmpRuns' = cleaned
                /\ cmpJobs' = ensured /\ cmpTimers' = cmpTimers
           ELSE /\ cmpRunId' = cmpRunId + 1
                /\ CmpRunFrom(cmpRunId + 1, q, 1, ensured, cmpTimers, cleaned)

\* addFiles with one image that has not been in the list
CmpAdd(id) ==
    /\ id \notin cmpUsed /\ cmpRunId < MaxCmpRuns
    /\ cmpUsed' = cmpUsed \cup {id}
    /\ CmpItemsChanged(Append(cmpItems, id))
    /\ UNCHANGED nonCmpVars

\* removeOne
CmpRemove(id) ==
    /\ id \in SeqToSet(cmpItems) /\ cmpRunId < MaxCmpRuns
    /\ CmpItemsChanged(SeqFilterOut(cmpItems, id))
    /\ UNCHANGED cmpUsed
    /\ UNCHANGED nonCmpVars

\* the compression of the item run r awaits has produced its payload
CmpSucceeds(r) ==
    /\ cmpRuns[r].phase = "await"
    /\ LET q == cmpRuns[r].items
           id == q[cmpRuns[r].pos]
       IN  IF cmpRuns[r].cancelled \/ r # cmpRunId
           THEN /\ cmpRuns' = [cmpRuns EXCEPT ![r].phase = "over"]
                /\ UNCHANGED <<cmpJobs, cmpTimers>>
           ELSE CmpRunFrom(r, q, cmpRuns[r].pos + 1,
                           [cmpJobs EXCEPT ![id] = "done"], cmpTimers \ {id}, cmpRuns)
    /\ UNCHANGED <<cmpItems, cmpUsed, cmpRunId>>
    /\ UNCHANGED nonCmpVars

\* the compression of the item run r awaits has thrown: the catch stops the
\* timer and sets status "error", and the loop goes on to its next check
CmpThrows(r) ==
    /\ cmpRuns[r].phase = "await"
    /\ LET q == cmpRuns[r].items
           id == q[cmpRuns[r].pos]
           failed == [cmpJobs EXCEPT ![id] = "error"]
       IN  IF cmpRuns[r].cancelled \/ r # cmpRunId
           THEN /\ cmpRuns' = [cmpRuns EXCEPT ![r].phase = "over"]
                /\ cmpJobs' = failed /\ cmpTimers' = cmpTimers \ {id}
           ELSE CmpRunFrom(r, q, cmpRuns[r].pos + 1, failed, cmpTimers \ {id}, cmpRuns)
    /\ UNCHANGED <<cmpItems, cmpUsed, cmpRunId>>
    /\ UNCHANGED nonCmpVars

\* the compression run r awaits comes to an end
CmpEnds(r) == CmpSucceeds(r) \/ CmpThrows(r)

CmpNext ==
    \/ \E id \in ImageIds : CmpAdd(id)
    \/ \E id \in ImageIds : CmpRemove(id)
    \/ \E r \in 1..MaxCmpRuns : CmpSucceeds(r)
    \/ \E r \in 1..MaxCmpRuns : CmpThrows(r)

CmpSpecInit ==
    /\ CropInit /\ MapIdle /\ WrapIdle /\ viewSteps = 0 /\ BatchIdle /\ WmIdle
    /\ MsIdle /\ ExportIdle /\ DsIdle /\ TileIdle /\ OvIdle /\ PtrIdle /\ RotIdle
    /\ CmpIdle /\ PollIdle /\ LoadIdle /\ RzIdle /\ UiIdle /\ ZipIdle

\* every compression that has started comes to an end: loadImage and
\* canvas.toBlob call back
SpecCompress ==
    CmpSpecInit /\ [][CmpNext]_vars /\ \A r \in 1..MaxCmpRuns : WF_vars(CmpEnds(r))

CmpInList(id) == id \in SeqToSet(cmpItems)
\* a compression of image id is running
CmpRunning(id) ==
    \E r \in 1..MaxCmpRuns :
        cmpRuns[r].phase = "await" /\ cmpRuns[r].items[cmpRuns[r].pos] = id

\* C24: every image in the list eventually has status "done" or "error",
\* whatever the interleaving of adding and removing images with a running
\* compression, and a progress timer runs only while the compression of its
\* image is running.
C24_EveryImageSettles ==
    /\ \A id \in ImageIds :
          CmpInList(id) ~> (~CmpInList(id) \/ cmpJobs[id] \in {"done", "error"})
    /\ [](\A id \in cmpTimers : CmpRunning(id))

(***************************************************************************)
(* The overlay's poll of the viewer's view state across a switch of the    *)
(* active image (SpecPoll)                                                 *)
(***************************************************************************)
\* the images of the list: two of the same proportions and a third
PollImages ==
    {[width |-> 80, height |-> 60], [width |-> 160, height |-> 120],
     [width |-> 48, height |-> 64]}

\* draw() of the polled viewer with the props of the moment
PvDraw(img, r) ==
    draw(ContainerWidth, ContainerHeight, img.width, img.height, r, R(1), ZeroPoint)

\* the first image has loaded and has been drawn; the overlay has not polled
PollInit ==
    /\ pvImage \in PollImages /\ pvLoaded = TRUE /\ pvRotation = 0
    /\ pvViewState = PvDraw(pvImage, 0)
    /\ pvView = NoView /\ pvPolled = FALSE

\* another image of the list becomes the active one: the viewer gets its
\* url, width and height, and starts to load it
PvSwitch(img) ==
    /\ img # pvImage
    /\ pvImage' = img /\ pvLoaded' = FALSE
    /\ UNCHANGED <<pvRotation, pvViewState, pvView, pvPolled>>
    /\ UNCHANGED nonPollVars

\* img.onload: the rotation is reset and the image is drawn
PvLoaded ==
    /\ ~pvLoaded
    /\ pvLoaded' = TRUE /\ pvRotation' = 0
    /\ pvViewState' = PvDraw(pvImage, 0)
    /\ pvPolled' = FALSE
    /\ UNCHANGED <<pvImage, pvView>>
    /\ UNCHANGED nonPollVars

\* api.rotateRight90 / api.rotateLeft90 and the redraw
PvRotate(delta) ==
    /\ pvRotation' = (pvRotation + delta) % 360
    /\ pvViewState' = PvDraw(pvImage, (pvRotation + delta) % 360)
    /\ pvPolled' = FALSE
    /\ UNCHANGED <<pvImage, pvLoaded, pvView>>
    /\ UNCHANGED nonPollVars

\* tick of the polling effect
PvTick ==
    /\ ~pvPolled
    /\ pvView' = IF SameView(pvViewState, pvView) THEN pvView ELSE pvViewState
    /\ pvPolled' = TRUE
    /\ UNCHANGED <<pvImage, pvLoaded, pvRotation, pvViewState>>
    /\ UNCHANGED nonPollVars

PollNext ==
    \/ \E img \in PollImages : PvSwitch(img)
    \/ PvLoaded
    \/ \E d \in {90, 270} : PvRotate(d)
    \/ PvTick

PollSpecInit ==
    /\ CropInit /\ MapIdle /\ WrapIdle /\ viewSteps = 0 /\ BatchIdle /\ WmIdle
    /\ MsIdle /\ ExportIdle /\ DsIdle /\ TileIdle /\ OvIdle /\ PtrIdle /\ RotIdle
    /\ CmpIdle /\ PollInit /\ LoadIdle /\ RzIdle /\ UiIdle /\ ZipIdle

SpecPoll == PollSpecInit /\ [][PollNext]_vars

\* C25: once the viewer has redrawn and the overlay's poll has ticked, the
\* overlay's view snapshot is the viewer's in every field (imageWidth,
\* imageHeight, effectiveWidth and effectiveHeight included), for all pairs
\* of images switched between.
C25_OverlayConverges == pvPolled => pvView = pvViewState

(***************************************************************************)
(* The viewer's image loads (SpecLoad)                                     *)
(***************************************************************************)
MaxLoads == 4
\* the urls of the images of the list
LoadUrls == {"a", "b", "c"}

\* the url the viewer has been given last
LdUrl == ldLoads[Len(ldLoads)].url

\* the viewer has mounted: the image-load effect has started the first load
LoadInit ==
    /\ \E u \in LoadUrls : ldLoads = <<[url |-> u, done |-> FALSE]>>
    /\ ldImageRef = "" /\ ldCanvas = ""

\* imageUrl changes: the image-load effect starts a load of the new url
LdUrlChanges(u) ==
    /\ Len(ldLoads) < MaxLoads /\ u # LdUrl
    /\ ldLoads' = Append(ldLoads, [url |-> u, done |-> FALSE])
    /\ UNCHANGED <<ldImageRef, ldCanvas>>
    /\ UNCHANGED nonLoadVars

\* img.onload of the i-th load: imageRef becomes its bitmap, and draw()
\* draws imageRef.current
LdOnload(i) ==
    /\ i <= Len(ldLoads) /\ ~ldLoads[i].done
    /\ ldLoads' = [ldLoads EXCEPT ![i].done = TRUE]
    /\ ldImageRef' = ldLoads[i].url
    /\ ldCanvas' = ldLoads[i].url
    /\ UNCHANGED nonLoadVars

LoadNext ==
    \/ \E u \in LoadUrls : LdUrlChanges(u)
    \/ \E i \in 1..MaxLoads : LdOnload(i)

LoadSpecInit ==
    /\ CropInit /\ MapIdle /\ WrapIdle /\ viewSteps = 0 /\ BatchIdle /\ WmIdle
    /\ MsIdle /\ ExportIdle /\ DsIdle /\ TileIdle /\ OvIdle /\ PtrIdle /\ RotIdle
    /\ CmpIdle /\ PollIdle /\ LoadInit /\ RzIdle /\ UiIdle /\ ZipIdle

SpecLoad == LoadSpecInit /\ [][LoadNext]_vars

\* C26: once all loads have completed, in whatever order, the bitmap on the
\* canvas is the one of the url given last.
C26_LatestUrlDrawn ==
    (\A i \in 1..Len(ldLoads) : ldLoads[i].done) => ldCanvas = LdUrl

(***************************************************************************)
(* The viewer's draws on load, on rotation and on container resize         *)
(* (SpecResize)                                                            *)
(***************************************************************************)
\* the widths the container takes
RzWidths == {ContainerWidth, 180}

\* draw() of the render in which the props were img
RzDraw(img, w, r) ==
    draw(w, ContainerHeight, img.width, img.height, r, R(1), ZeroPoint)

\* the viewer has been mounted with the first image, which has not loaded
RzInit ==
    /\ rzMounted \in PollImages /\ rzImage = rzMounted
    /\ rzLoaded = FALSE /\ rzWidth = ContainerWidth /\ rzRotation = 0
    /\ rzViewState = NoView

\* the active image changes: the viewer is rendered with new props
RzSwitch(img) ==
    /\ rzLoaded /\ img # rzImage
    /\ rzImage' = img /\ rzLoaded' = FALSE
    /\ UNCHANGED <<rzMounted, rzWidth, rzRotation, rzViewState>>
    /\ UNCHANGED nonRzVars

\* img.onload of the load effect of the latest render
RzOnload ==
    /\ ~rzLoaded
    /\ rzLoaded' = TRUE /\ rzRotation' = 0
    /\ rzViewState' = RzDraw(rzImage, rzWidth, 0)
    /\ UNCHANGED <<rzMounted, rzImage, rzWidth>>
    /\ UNCHANGED nonRzVars

\* a rotate button: the redraw effect of the render that follows calls that
\* render's draw; draw returns at once while no image has ever loaded
RzRotate(delta) ==
    /\ rzRotation' = (rzRotation + delta) % 360
    /\ rzViewState' = IF rzViewState = NoView THEN rzViewState
                      ELSE RzDraw(rzImage, rzWidth, (rzRotation + delta) % 360)
    /\ UNCHANGED <<rzMounted, rzImage, rzLoaded, rzWidth>>
    /\ UNCHANGED nonRzVars

\* the container's width becomes w: the resize observer, created by an
\* effect that runs once, calls the draw of the first render
RzResize(w) ==
    /\ w # rzWidth
    /\ rzWidth' = w
    /\ rzViewState' = IF rzViewState = NoView THEN rzViewState
                      ELSE RzDraw(rzMounted, w, rzRotation)
    /\ UNCHANGED <<rzMounted, rzImage, rzLoaded, rzRotation>>
    /\ UNCHANGED nonRzVars

RzNext ==
    \/ \E img \in PollImages : RzSwitch(img)
    \/ RzOnload
    \/ \E d \in {90, 270} : RzRotate(d)
    \/ \E w \in RzWidths : RzResize(w)

RzSpecInit ==
    /\ CropInit /\ MapIdle /\ WrapIdle /\ viewSteps = 0 /\ BatchIdle /\ WmIdle
    /\ MsIdle /\ ExportIdle /\ DsIdle /\ TileIdle /\ OvIdle /\ PtrIdle /\ RotIdle
    /\ CmpIdle /\ PollIdle /\ LoadIdle /\ RzInit /\ UiIdle /\ ZipIdle

SpecResize == RzSpecInit /\ [][RzNext]_vars

\* C27: every ViewState the viewer records carries the native width and
\* height of the image passed to the viewer at that moment, the ViewStates
\* recorded on a container resize after a switch of the image included.
C27_ViewStateOfCurrentImage ==
    [][rzViewState' # rzViewState =>
          /\ rzViewState'.imageWidth = rzImage'.width
          /\ rzViewState'.imageHeight = rzImage'.height]_vars

(***************************************************************************)
(* useImageItems with addFiles completing asynchronously (SpecItems)       *)
(***************************************************************************)
\* addFiles(files) is called: fileToImageInfo is pending for each file; the
\* ids of the batch stand for the ids makeId gives at completion
UiAddFiles(q) ==
    /\ SeqToSet(q) \cap uiUsed = {}
    /\ uiUsed' = uiUsed \cup SeqToSet(q)
    /\ uiPending' = uiPending \cup {q}
    /\ UNCHANGED <<uiItems, uiActiveId>>
    /\ UNCHANGED nonUiVars

\* Promise.all of an addFiles call resolves: setItems and setActiveId with
\* their functional updates
UiAddCompletes(q) ==
    /\ q \in uiPending
    /\ uiPending' = uiPending \ {q}
    /\ uiItems' = uiItems \o q
    /\ uiActiveId' = IF uiActiveId # "" THEN uiActiveId ELSE q[1]
    /\ UNCHANGED uiUsed
    /\ UNCHANGED nonUiVars

\* fileToImageInfo rejects for a file of the batch: addFiles throws before
\* it sets anything
UiAddFails(q) ==
    /\ q \in uiPending
    /\ uiPending' = uiPending \ {q}
    /\ UNCHANGED <<uiItems, uiActiveId, uiUsed>>
    /\ UNCHANGED nonUiVars

\* removeOne(id) from the remove button of a listed image
UiRemoveOne(id) ==
    /\ id \in SeqToSet(uiItems)
    /\ \E n \in {removeOne(uiItems, uiActiveId, id)} :
          uiItems' = n.items /\ uiActiveId' = n.activeId
    /\ UNCHANGED <<uiPending, uiUsed>>
    /\ UNCHANGED nonUiVars

\* clearAll
UiClearAll ==
    /\ Len(uiItems) > 0
    /\ uiItems' = <<>> /\ uiActiveId' = ""
    /\ UNCHANGED <<uiPending, uiUsed>>
    /\ UNCHANGED nonUiVars

\* setActiveId(id) from the thumb of a listed image
UiSelect(id) ==
    /\ id \in SeqToSet(uiItems) /\ id # uiActiveId
    /\ uiActiveId' = id
    /\ UNCHANGED <<uiItems, uiPending, uiUsed>>
    /\ UNCHANGED nonUiVars

UiIds == {"a", "b", "c", "d"}

UiNext ==
    \/ \E q \in DistinctSeqs(UiIds, 1, 2) : UiAddFiles(q)
    \/ \E q \in DistinctSeqs(UiIds, 1, 2) : UiAddCompletes(q)
    \/ \E q \in DistinctSeqs(UiIds, 1, 2) : UiAddFails(q)
    \/ \E id \in UiIds : UiRemoveOne(id)
    \/ UiClearAll
    \/ \E id \in UiIds : UiSelect(id)

UiSpecInit ==
    /\ CropInit /\ MapIdle /\ WrapIdle /\ viewSteps = 0 /\ BatchIdle /\ WmIdle
    /\ MsIdle /\ ExportIdle /\ DsIdle /\ TileIdle /\ OvIdle /\ PtrIdle /\ RotIdle
    /\ CmpIdle /\ PollIdle /\ LoadIdle /\ RzIdle /\ UiIdle /\ ZipIdle

SpecItems == UiSpecInit /\ [][UiNext]_vars

\* C28: whenever the list is not empty, activeId is the id of an image in
\* the list, for every interleaving of addFiles calls and their completions
\* with removeOne, clearAll and selection.
C28_ActiveInList == Len(uiItems) > 0 => uiActiveId \in SeqToSet(uiItems)

\* every addFiles call has come to an end, an image of one of them is no
\* longer listed (removed, cleared, or its call failed), at least two images
\* are listed and one other than the first is the active one
C28_Witness ==
    /\ Len(uiItems) >= 2 /\ uiActiveId # uiItems[1]
    /\ \E id \in uiUsed : id \notin SeqToSet(uiItems)
    /\ uiPending = {}

(***************************************************************************)
(* The overlay's inputs while a run is processing (SpecOverlay)            *)
(***************************************************************************)
\* C29: while the overlay is open in status "processing", no input (Escape,
\* backdrop, close button, the action row's button) closes it or starts a
\* download: such a step changes nothing but the record of the input; and
\* the status leaves "processing" only in the step in which the current run
\* ends, for "success" or "error".
C29_ProcessingIsModal ==
    [][/\ (isProcessingOpen /\ processingStatus = "processing" /\ ovLastInput' # "none") =>
              /\ isProcessingOpen' /\ processingStatus' = "processing"
              /\ UNCHANGED <<downloadBusy, downloadPayloads, processingRunIdRef, ovRuns>>
       /\ (processingStatus = "processing" /\ processingStatus' # "processing") =>
              /\ processingRunIdRef' = processingRunIdRef
              /\ ovRuns[processingRunIdRef].phase \in {"action", "wait"}
              /\ ovRuns'[processingRunIdRef].phase = "over"
              /\ processingStatus' \in {"success", "error"}
      ]_vars

\* the close button has been clicked while the current run was exporting,
\* and the overlay is open in status "processing"
C29_Witness ==
    /\ isProcessingOpen /\ processingStatus = "processing"
    /\ ovLastInput = "close"
    /\ processingRunIdRef \in RunsInFlight

(***************************************************************************)
(* The archive of 'download all' (SpecZip)                                 *)
(***************************************************************************)
\* base.replace(/(\.[^.]*)?$/, `(${n})$1`): "(n)" goes before the extension
ZipSuffix(n) == IF n = 2 THEN "(2)" ELSE IF n = 3 THEN "(3)" ELSE "(4)"
ZipRename(base, n) == [base EXCEPT !.stem = Append(@, ZipSuffix(n))]

\* zip.file(name, blob): an entry of that name is replaced
ZipFile(zip, name, payload) ==
    {e \in zip : e.name # name} \cup {[name |-> name, payload |-> payload]}

\* the overlay holds two or three payloads of a bulk action
ZipInit ==
    /\ zpPayloads \in UNION {[1..n -> ZipNames] : n \in 2..3}
    /\ zpPos = 0
    /\ nameCounts = [n \in ZipNames \cup {ImageName} |-> 0]
    /\ zpZip = {} /\ zpDone = FALSE

\* one turn of the loop over downloadPayloads
ZipAddEntry ==
    /\ zpPos < Len(zpPayloads)
    /\ \E base \in {IF zpPayloads[zpPos + 1] = [stem |-> <<>>, ext |-> ""]
                     THEN ImageName ELSE zpPayloads[zpPos + 1]} :
       \E count \in {nameCounts[base]} :
          /\ nameCounts' = [nameCounts EXCEPT ![base] = count + 1]
          /\ zpZip' = ZipFile(zpZip,
                              IF count > 0 THEN ZipRename(base, count + 1) ELSE base,
                              zpPos + 1)
    /\ zpPos' = zpPos + 1
    /\ UNCHANGED <<zpPayloads, zpDone>>
    /\ UNCHANGED nonZipVars

\* zip.generateAsync and downloadBlob
ZipGenerate ==
    /\ zpPos = Len(zpPayloads) /\ ~zpDone
    /\ zpDone' = TRUE
    /\ UNCHANGED <<zpPayloads, zpPos, nameCounts, zpZip>>
    /\ UNCHANGED nonZipVars

ZipNext == ZipAddEntry \/ ZipGenerate

ZipSpecInit ==
    /\ CropInit /\ MapIdle /\ WrapIdle /\ viewSteps = 0 /\ BatchIdle /\ WmIdle
    /\ MsIdle /\ ExportIdle /\ DsIdle /\ TileIdle /\ OvIdle /\ PtrIdle /\ RotIdle
    /\ CmpIdle /\ PollIdle /\ LoadIdle /\ RzIdle /\ UiIdle /\ ZipInit

SpecZip == ZipSpecInit /\ [][ZipNext]_vars

====
